---- MODULE Spec2Model ----
\* Model of the BgStatusService login-screen pipeline (resolve source, render,
\* save, apply) and of the bgchanger appliers, for checking the design notes
\* against the code.
EXTENDS Integers, Sequences, FiniteSets, TLC

VARIABLES
    files,      \* file system: path -> content (NoFile when absent)
    policyReg,  \* HKLM\SOFTWARE\Policies\Microsoft\Windows\Personalization, value LockScreenImage
    cspReg,     \* HKLM\...\CurrentVersion\PersonalizationCSP, value LockScreenImagePath
    spotlight,  \* the Spotlight Assets directory of the account the service runs as
    pc,         \* position of runStatusUpdate
    run,        \* locals of the runStatusUpdate call in progress or just returned
    apply,      \* record of the last applier call (mechanisms invoked, their errors, the result)
    runs,       \* number of runStatusUpdate calls started
    ext,        \* number of operations of other programs (bgchanger, InvalidateBackup)
    quiet,      \* TRUE while nothing but the service has acted since the previous run ended
    bgpc,       \* position of bgchanger's main
    bgSet,      \* TRUE once bgchanger's setLoginScreenBackground returned nil, until the next run starts
    fontOnce,   \* overlay.fontPathOnce: its done flag and the holder of its mutex
    fontCache,  \* overlay.cachedFontPath, overlay.fontPathErr and the extracted font file
    gor,        \* the goroutines of a process that renders: position and locals of each
    renderCall, \* the last call of a render function by a client of package overlay
    dl,         \* installer.DownloadFile: position, locals, destPath and destPath+".tmp"
    scaleCall,  \* the last call of calculateScaledDimensionsForResolution
    brightCall, \* the last call of AnalyzeRegionBrightness
    panelCall,  \* the last call of a render function on a picture: its boxes, colours and painted area
    setup,      \* BgStatusSetup: runInstall / runUninstall, the worker goroutine and the check goroutine
    pw,         \* installer.ProgressWindow: canClose, isComplete, the window and its message queue
    svc,        \* bgStatusService.Execute: position, statuses reported, requests received
    script      \* install/uninstall.ps1: position and the answers given to it

serviceVars == <<files, policyReg, cspReg, spotlight, pc, run, apply, runs, ext, quiet, bgpc, bgSet>>
fontVars == <<fontOnce, fontCache, gor>>
moreVars == <<panelCall, setup, pw, svc, script>>
sideVars == <<fontVars, renderCall, dl, scaleCall, brightCall, moreVars>>
vars == <<serviceVars, sideVars>>

-----------------------------------------------------------------------------
\* Bounds of the model.

MaxRuns == 2
MaxExternal == 1
MaxSpotEntries == 2

-----------------------------------------------------------------------------
\* Values.

Nil == "nil"

Path(dir, name, idx) == [dir |-> dir, name |-> name, idx |-> idx]
EmptyPath == Path("", "", 0)

BackupDir == "ProgramData/BgStatusService"
BackupFileName == "original_background.jpg"
OutputFileName == "current_loginscreen.jpg"
GetBackupPath == Path(BackupDir, BackupFileName, 0)
OutputPath == Path(BackupDir, OutputFileName, 0)
OobeBackgrounds == "SystemRoot/System32/oobe/info/backgrounds"
OobeDefault == Path(OobeBackgrounds, "backgroundDefault.jpg", 0)
SpotlightDir == "LOCALAPPDATA/Packages/Microsoft.Windows.ContentDeliveryManager_cw5n1h2txyewy/LocalState/Assets"
SpotPath(i) == Path(SpotlightDir, "asset", i)
UserImage == Path("Users/me/Pictures", "wallpaper.png", 0)
MissingPath == Path("Users/me/Pictures", "deleted.jpg", 0)

\* File names spelled out, for the code that slices them.
Chars(name) ==
    CASE name = BackupFileName -> <<"o", "r", "i", "g", "i", "n", "a", "l", "_", "b", "a", "c", "k", "g", "r", "o", "u", "n", "d", ".", "j", "p", "g">>
      [] name = OutputFileName -> <<"c", "u", "r", "r", "e", "n", "t", "_", "l", "o", "g", "i", "n", "s", "c", "r", "e", "e", "n", ".", "j", "p", "g">>
      [] name = "backgroundDefault.jpg" -> <<"b", "a", "c", "k", "g", "r", "o", "u", "n", "d", "D", "e", "f", "a", "u", "l", "t", ".", "j", "p", "g">>
      [] OTHER -> <<>>

LoginScreenPrefix == <<"l", "o", "g", "i", "n", "s", "c", "r", "e", "e", "n", "_">>
JpgSuffix == <<".", "j", "p", "g">>

\* findLatestLoginScreenImage: len(name) > 12 && name[:12] == "loginscreen_" && name[len(name)-4:] == ".jpg"
IsLoginScreenName(name) ==
    /\ Len(name) > Len(LoginScreenPrefix)
    /\ SubSeq(name, 1, Len(LoginScreenPrefix)) = LoginScreenPrefix
    /\ SubSeq(name, Len(name) - Len(JpgSuffix) + 1, Len(name)) = JpgSuffix

FilePaths == {GetBackupPath, OutputPath, OobeDefault, UserImage}

SpotlightMinSize == 100000
DefaultWidth == 1920
DefaultHeight == 1080

\* Contents of a file, or an image in memory.  layers counts the overlays that
\* have been rendered onto the picture of the given origin.
Image(origin, w, h, layers, format) ==
    [kind |-> "image", origin |-> origin, w |-> w, h |-> h, layers |-> layers, format |-> format]
NoFile == [kind |-> "nofile", origin |-> "", w |-> 0, h |-> 0, layers |-> 0, format |-> ""]
Corrupt == [kind |-> "corrupt", origin |-> "", w |-> 0, h |-> 0, layers |-> 0, format |-> ""]
NoImage == [kind |-> "nil", origin |-> "", w |-> 0, h |-> 0, layers |-> 0, format |-> ""]

IsImage(c) == c.kind = "image"

UserPicture == Image("user", 2560, 1440, 0, "png")
OobePicture == Image("oobe", 1920, 1200, 0, "jpeg")

\* Registry value states: key absent, value absent, value present (possibly empty).
RegNoKey == [key |-> FALSE, set |-> FALSE, value |-> EmptyPath]
RegNoValue == [key |-> TRUE, set |-> FALSE, value |-> EmptyPath]
RegVal(p) == [key |-> TRUE, set |-> TRUE, value |-> p]

\* Directory entries of the Spotlight cache, in ReadDir order.  vanished: the
\* entry was listed but entry.Info() fails (the file went away after ReadDir).
Entry(isDir, size, vanished) == [isDir |-> isDir, size |-> size, vanished |-> vanished]

SpotSizes == {0, SpotlightMinSize - 1, SpotlightMinSize, SpotlightMinSize + 1, 3 * SpotlightMinSize}

EntryKinds ==
    {Entry(FALSE, s, FALSE) : s \in SpotSizes}
        \cup {Entry(TRUE, 4 * SpotlightMinSize, FALSE), Entry(FALSE, 4 * SpotlightMinSize, TRUE)}

SpotNoEnv == [env |-> FALSE, dir |-> "absent", entries |-> <<>>]
SpotDir(kind, entries) == [env |-> TRUE, dir |-> kind, entries |-> entries]

Listings == UNION {[1..n -> EntryKinds] : n \in 0..MaxSpotEntries}

SpotStatesWide ==
    {SpotNoEnv, SpotDir("absent", <<>>), SpotDir("file", <<>>), SpotDir("unreadable", <<>>)}
        \cup {SpotDir("dir", l) : l \in Listings}

RegStatesWide == {RegNoKey, RegNoValue, RegVal(EmptyPath), RegVal(UserImage), RegVal(MissingPath)}
RegStatesNarrow == {RegNoValue, RegVal(UserImage)}

-----------------------------------------------------------------------------
\* File system primitives.

\* The part of the machine the programs read and write.
World == [files |-> files, policyReg |-> policyReg, cspReg |-> cspReg, spotlight |-> spotlight]

StatIn(w, path) ==
    IF path \in FilePaths THEN w.files[path] # NoFile
    ELSE /\ path.dir = SpotlightDir
         /\ w.spotlight.env /\ w.spotlight.dir = "dir"
         /\ path.idx \in 1..Len(w.spotlight.entries)
         /\ ~w.spotlight.entries[path.idx].vanished

ReadIn(w, path) ==
    IF path \in FilePaths THEN w.files[path]
    ELSE IF ~StatIn(w, path) THEN NoFile
    ELSE IF w.spotlight.entries[path.idx].isDir THEN Corrupt
    ELSE Image("spotlight", 1920, 1080, 0, "jpeg")

Stat(path) == StatIn(World, path)
ReadFile(path) == ReadIn(World, path)

\* Variant: the check for an existing backup is lost.
HasBackupLost == FALSE

HasBackup == Stat(GetBackupPath)

\* Variant: the path of the rendered output is returned instead.
GetBackupImageOfOutput ==
    IF ~Stat(GetBackupPath) THEN [path |-> EmptyPath, err |-> "backup does not exist"]
    ELSE [path |-> OutputPath, err |-> Nil]

GetBackupImage ==
    IF ~Stat(GetBackupPath) THEN [path |-> EmptyPath, err |-> "backup does not exist"]
    ELSE [path |-> GetBackupPath, err |-> Nil]

-----------------------------------------------------------------------------
\* GetCurrentLoginScreenImage: the four probes, in priority order.

Hit(path) == [hit |-> TRUE, path |-> path]
Miss == [hit |-> FALSE, path |-> EmptyPath]

\* Variant: the path read from the registry is not checked with os.Stat.
ProbeRegistryNoStat(reg) ==
    IF reg.key /\ reg.set /\ reg.value # EmptyPath THEN Hit(reg.value) ELSE Miss

\* Priority 1 and 3: a registry string value naming an existing path.
ProbeRegistry(reg) ==
    IF reg.key /\ reg.set /\ reg.value # EmptyPath /\ Stat(reg.value)
    THEN Hit(reg.value)
    ELSE Miss

\* Priority 2: the OOBE backgrounds folder.
ProbeOobe == IF Stat(OobeDefault) THEN Hit(OobeDefault) ELSE Miss

\* The loop over the directory entries: acc is (largestFile, largestSize).
RECURSIVE ScanLargest(_, _, _)
ScanLargest(entries, i, acc) ==
    IF i > Len(entries) THEN acc
    ELSE LET e == entries[i] IN
         IF e.isDir THEN ScanLargest(entries, i + 1, acc)
         ELSE IF e.vanished THEN ScanLargest(entries, i + 1, acc)
         ELSE IF e.size > acc.largestSize
              THEN ScanLargest(entries, i + 1, [largestFile |-> SpotPath(i), largestSize |-> e.size])
              ELSE ScanLargest(entries, i + 1, acc)

\* Variant: the size threshold is inclusive.
ProbeSpotlightInclusive ==
    IF ~spotlight.env THEN Miss
    ELSE IF spotlight.dir \notin {"dir", "unreadable"} THEN Miss
    ELSE LET entries == IF spotlight.dir = "dir" THEN spotlight.entries ELSE <<>>
             acc == ScanLargest(entries, 1, [largestFile |-> EmptyPath, largestSize |-> 0])
         IN IF acc.largestFile # EmptyPath /\ acc.largestSize >= SpotlightMinSize
            THEN Hit(acc.largestFile)
            ELSE Miss

\* Priority 4: the largest file of the Spotlight assets directory.
ProbeSpotlight ==
    IF ~spotlight.env THEN Miss
    ELSE IF spotlight.dir \notin {"dir", "unreadable"} THEN Miss
    ELSE LET entries == IF spotlight.dir = "dir" THEN spotlight.entries ELSE <<>>
             acc == ScanLargest(entries, 1, [largestFile |-> EmptyPath, largestSize |-> 0])
         IN IF acc.largestFile # EmptyPath /\ acc.largestSize > SpotlightMinSize
            THEN Hit(acc.largestFile)
            ELSE Miss

Found(path, probes) == [path |-> path, err |-> Nil, probes |-> probes]

\* probes lists the probes that were evaluated, in order.
GetCurrentLoginScreenImage ==
    LET p1 == ProbeRegistry(policyReg) IN
    IF p1.hit THEN Found(p1.path, <<"policy">>)
    ELSE LET p2 == ProbeOobe IN
    IF p2.hit THEN Found(p2.path, <<"policy", "oobe">>)
    ELSE LET p3 == ProbeRegistry(cspReg) IN
    IF p3.hit THEN Found(p3.path, <<"policy", "oobe", "csp">>)
    ELSE LET p4 == ProbeSpotlight IN
    IF p4.hit THEN Found(p4.path, <<"policy", "oobe", "csp", "spotlight">>)
    ELSE [path |-> EmptyPath, err |-> "no existing login screen image found",
          probes |-> <<"policy", "oobe", "csp", "spotlight">>]

-----------------------------------------------------------------------------
\* The mechanisms.  Each takes the world and the outcome o of its system calls
\* (which call, if any, fails) and returns the world it leaves and its error.

Done(w, err) == [w |-> w, err |-> err]

WinRTOutcomes == {"ok", "powershell"}
GroupPolicyOutcomes == {"ok", "openkey", "syskey"}
OobeOutcomes == {"ok", "open", "save", "regkey"}
HkcuOutcomes == {"ok", "setvalue"}
AssetsOutcomes == {"ok", "noenv", "write"}
SystemDataOutcomes == {"ok", "denied"}
HklmOutcomes == {"ok", "syskey", "seturl"}

\* The WinRT call changes the lock screen of the calling user, which no
\* program of the repository reads back.
setLoginScreenViaWinRT(w, absPath, o) ==
    IF o # "ok" THEN Done(w, "PowerShell WinRT failed") ELSE Done(w, Nil)

setLoginScreenViaGroupPolicy(w, absPath, o) ==
    IF o = "openkey" THEN Done(w, "failed to open Personalization policy key")
    ELSE LET w2 == [w EXCEPT !.policyReg = RegVal(absPath)] IN
         IF o = "syskey" THEN Done(w2, "failed to open System policy key")
         ELSE Done(w2, Nil)

\* Variant: the image is moved to the target instead of copied.
setLoginScreenViaOOBEMoving(w, absPath, o) ==
    LET src == ReadIn(w, absPath) IN
    IF o = "open" \/ src = NoFile THEN Done(w, "failed to open source image")
    ELSE IF ~IsImage(src) THEN Done(w, "failed to decode image")
    ELSE IF o = "save"
         THEN Done([w EXCEPT !.files[OobeDefault] = Corrupt], "failed to save image")
    ELSE LET out == IF src.format \in {"jpeg", "jpg"} THEN src ELSE [src EXCEPT !.format = "jpeg"]
             w2 == [w EXCEPT !.files[OobeDefault] = out, !.files[absPath] = NoFile]
         IN IF o = "regkey" THEN Done(w2, "failed to open LogonUI Background key")
            ELSE Done(w2, Nil)

setLoginScreenViaOOBE(w, absPath, o) ==
    LET src == ReadIn(w, absPath) IN
    IF o = "open" \/ src = NoFile THEN Done(w, "failed to open source image")
    ELSE IF ~IsImage(src) THEN Done(w, "failed to decode image")
    ELSE IF o = "save"
         THEN Done([w EXCEPT !.files[OobeDefault] = Corrupt], "failed to save image")
    ELSE LET out == IF src.format \in {"jpeg", "jpg"} THEN src ELSE [src EXCEPT !.format = "jpeg"]
             w2 == [w EXCEPT !.files[OobeDefault] = out]
         IN IF o = "regkey" THEN Done(w2, "failed to open LogonUI Background key")
            ELSE Done(w2, Nil)

\* bgchanger: HKCU PersonalizationCSP, read by no program of the repository.
setLockScreenWallpaperViaRegistry(w, absPath, o) ==
    IF o # "ok" THEN Done(w, "RegSetValueExW failed") ELSE Done(w, Nil)

\* bgchanger: copy into the Assets folder of the invoking user's profile under
\* a fresh LockScreen_<nanos> name.  The service runs as LocalSystem, whose
\* profile (and so whose Assets folder, the one `spotlight` stands for) is
\* another one: the copy is not in the world the service reads.
setLockScreenWallpaperViaAssets(w, absPath, o) ==
    IF o = "noenv" THEN Done(w, "could not determine LOCALAPPDATA path")
    ELSE IF ReadIn(w, absPath) = NoFile THEN Done(w, "failed to read source image")
    ELSE IF o = "write" THEN Done(w, "failed to write to destination")
    ELSE Done(w, Nil)

setLockScreenWallpaperViaSystemData(w, absPath, o) ==
    IF ReadIn(w, absPath) = NoFile THEN Done(w, "failed to read source image")
    ELSE IF o # "ok" THEN Done(w, "access denied to SystemData directory")
    ELSE Done(w, Nil)

setLockScreenWallpaperViaHKLM(w, absPath, o) ==
    IF o = "syskey" THEN Done(w, "failed to open HKLM System key")
    ELSE LET w2 == [w EXCEPT !.cspReg = RegVal(absPath)] IN
         IF o = "seturl" THEN Done(w2, "failed to set LockScreenImageUrl")
         ELSE Done(w2, Nil)

Mechanism(name, w, absPath, o) ==
    CASE name = "WinRT" -> setLoginScreenViaWinRT(w, absPath, o)
      [] name = "GroupPolicy" -> setLoginScreenViaGroupPolicy(w, absPath, o)
      [] name = "OOBE" -> setLoginScreenViaOOBE(w, absPath, o)
      [] name = "Registry (HKCU)" -> setLockScreenWallpaperViaRegistry(w, absPath, o)
      [] name = "Assets folder" -> setLockScreenWallpaperViaAssets(w, absPath, o)
      [] name = "System Data folder" -> setLockScreenWallpaperViaSystemData(w, absPath, o)
      [] name = "Registry (HKLM)" -> setLockScreenWallpaperViaHKLM(w, absPath, o)

Outcomes(name) ==
    CASE name = "WinRT" -> WinRTOutcomes
      [] name = "GroupPolicy" -> GroupPolicyOutcomes
      [] name = "OOBE" -> OobeOutcomes
      [] name = "Registry (HKCU)" -> HkcuOutcomes
      [] name = "Assets folder" -> AssetsOutcomes
      [] name = "System Data folder" -> SystemDataOutcomes
      [] name = "Registry (HKLM)" -> HklmOutcomes

-----------------------------------------------------------------------------
\* The appliers.  acc carries the locals anySuccess, lastError and err, the
\* world, and the list of the mechanisms invoked with the error of each.

NilRet == [msg |-> Nil, cause |-> Nil]
Failure(msg, cause) == [msg |-> msg, cause |-> cause]

StartAcc(w) ==
    [w |-> w, anySuccess |-> FALSE, lastError |-> Nil, err |-> Nil, calls |-> <<>>, errs |-> <<>>]

\* Variant: a method is skipped once an earlier one has succeeded.
InvokeUnlessSucceeded(acc, name, absPath, o) ==
    IF acc.anySuccess THEN [acc EXCEPT !.err = Nil]
    ELSE LET r == Mechanism(name, acc.w, absPath, o) IN
         [acc EXCEPT !.w = r.w, !.err = r.err, !.calls = Append(@, name), !.errs = Append(@, r.err)]

\* err = method(absPath)
Invoke(acc, name, absPath, o) ==
    LET r == Mechanism(name, acc.w, absPath, o) IN
    [acc EXCEPT !.w = r.w, !.err = r.err, !.calls = Append(@, name), !.errs = Append(@, r.err)]

\* Method 1 of SetLoginScreenImage.
RecordFirst(acc) ==
    IF acc.err # Nil THEN [acc EXCEPT !.lastError = acc.err]
    ELSE [acc EXCEPT !.anySuccess = TRUE]

\* Methods 2 and 3 of SetLoginScreenImage.
RecordLater(acc) ==
    IF acc.err # Nil
    THEN IF acc.lastError = Nil THEN [acc EXCEPT !.lastError = acc.err] ELSE acc
    ELSE [acc EXCEPT !.anySuccess = TRUE]

\* The loop body of bgchanger's appliers.
RecordLoop(acc) ==
    IF acc.err # Nil THEN [acc EXCEPT !.lastError = acc.err]
    ELSE [acc EXCEPT !.anySuccess = TRUE]

\* Variant: any recorded failure makes the applier fail.
FinishStrict(acc, msg) ==
    IF acc.lastError # Nil THEN Failure(msg, acc.lastError) ELSE NilRet

Finish(acc, msg) ==
    IF ~acc.anySuccess THEN Failure(msg, acc.lastError) ELSE NilRet

\* resolved: filepath.Abs succeeded.
Applied(fn, path, resolved, acc, ret) ==
    [fn |-> fn, path |-> path, resolved |-> resolved, w |-> acc.w,
     calls |-> acc.calls, errs |-> acc.errs, ret |-> ret]

SetLoginScreenImage(w, imagePath, absOk, o1, o2, o3) ==
    LET fn == "SetLoginScreenImage" IN
    IF ~absOk
    THEN Applied(fn, imagePath, FALSE, StartAcc(w), Failure("failed to get absolute path", "abs"))
    ELSE IF ~StatIn(w, imagePath)
    THEN Applied(fn, imagePath, TRUE, StartAcc(w), Failure("image file does not exist", "stat"))
    ELSE LET a1 == RecordFirst(Invoke(StartAcc(w), "WinRT", imagePath, o1))
             a2 == RecordLater(Invoke(a1, "GroupPolicy", imagePath, o2))
             a3 == RecordLater(Invoke(a2, "OOBE", imagePath, o3))
         IN Applied(fn, imagePath, TRUE, a3, Finish(a3, "all login screen methods failed, last error"))

LockScreenMethods == <<"Registry (HKCU)", "Assets folder", "System Data folder", "Registry (HKLM)">>
LoginScreenMethods == <<"WinRT", "GroupPolicy">>

\* for _, method := range methods { ... }
RECURSIVE TryAll(_, _, _, _, _)
TryAll(methods, i, acc, absPath, os) ==
    IF i > Len(methods) THEN acc
    ELSE TryAll(methods, i + 1, RecordLoop(Invoke(acc, methods[i], absPath, os[i])), absPath, os)

setLockScreenWallpaper(w, path, absOk, os) ==
    LET fn == "setLockScreenWallpaper" IN
    IF ~absOk THEN Applied(fn, path, FALSE, StartAcc(w), Failure("filepath.Abs failed", "abs"))
    ELSE LET a == TryAll(LockScreenMethods, 1, StartAcc(w), path, os)
         IN Applied(fn, path, TRUE, a, Finish(a, "all methods failed, last error"))

setLoginScreenBackground(w, path, absOk, os) ==
    LET fn == "setLoginScreenBackground" IN
    IF ~absOk THEN Applied(fn, path, FALSE, StartAcc(w), Failure("filepath.Abs failed", "abs"))
    ELSE LET a == TryAll(LoginScreenMethods, 1, StartAcc(w), path, os)
         IN Applied(fn, path, TRUE, a, Finish(a, "all login screen methods failed, last error"))

NoApply ==
    [fn |-> "", path |-> EmptyPath, resolved |-> FALSE, calls |-> <<>>, errs |-> <<>>, ret |-> NilRet]

Report(r) ==
    [fn |-> r.fn, path |-> r.path, resolved |-> r.resolved, calls |-> r.calls, errs |-> r.errs,
     ret |-> r.ret]

\* The outcomes of the system calls of one applier call.  When filepath.Abs
\* fails no mechanism runs, and their outcomes are immaterial.
LockScreenOutcomes ==
    {<<a, b, c, d>> : a \in HkcuOutcomes, b \in AssetsOutcomes,
                      c \in SystemDataOutcomes, d \in HklmOutcomes}
LoginScreenOutcomes == {<<a, b>> : a \in WinRTOutcomes, b \in GroupPolicyOutcomes}
ServiceOutcomes ==
    {<<a, b, c>> : a \in WinRTOutcomes, b \in GroupPolicyOutcomes, c \in OobeOutcomes}
AllOk(n) == [i \in 1..n |-> "ok"]
ApplierInputs(vectors, n) ==
    {[absOk |-> TRUE, os |-> v] : v \in vectors} \cup {[absOk |-> FALSE, os |-> AllOk(n)]}

-----------------------------------------------------------------------------
\* Helpers of the service.

BackupOutcomes == {"ok", "mkdir", "open", "create", "copy"}
LoadOutcomes == {"ok", "open"}
SaveOutcomes == {"ok", "create", "encode"}

\* BackupOriginalImage: os.Create truncates the backup file, io.Copy fills it.
BackupOriginalImage(w, imagePath, o) ==
    IF o = "mkdir" THEN Done(w, "failed to create backup directory")
    ELSE IF o = "open" \/ ~StatIn(w, imagePath) THEN Done(w, "failed to open source image")
    ELSE IF o = "create" THEN Done(w, "failed to create backup file")
    ELSE IF o = "copy"
         THEN Done([w EXCEPT !.files[GetBackupPath] = Corrupt], "failed to copy image to backup")
    ELSE Done([w EXCEPT !.files[GetBackupPath] = ReadIn(w, imagePath)], Nil)

LoadImage(w, imagePath, o) ==
    LET c == ReadIn(w, imagePath) IN
    IF o = "open" \/ c = NoFile THEN [img |-> NoImage, err |-> "failed to open image"]
    ELSE IF ~IsImage(c) THEN [img |-> NoImage, err |-> "failed to decode image"]
    ELSE [img |-> c, err |-> Nil]

\* The extension of the path selects the encoder.
SaveImage(w, img, imagePath, ext_, o) ==
    IF o = "create" THEN Done(w, "failed to create file")
    ELSE IF o = "encode" THEN Done([w EXCEPT !.files[imagePath] = Corrupt], "encode failed")
    ELSE LET fmt == IF ext_ = ".png" THEN "png" ELSE "jpeg"
         IN Done([w EXCEPT !.files[imagePath] = [img EXCEPT !.format = fmt]], Nil)

\* Variant: width and height are swapped.
CreateDefaultBackgroundSwapped(width, height) == Image("synthetic", height, width, 0, "rgba")

CreateDefaultBackground(width, height) == Image("synthetic", width, height, 0, "rgba")

\* sysinfo.Gather returns a nil error on every path.
Gather == [lines |-> <<"HOST1", "Windows 11">>, err |-> Nil]

-----------------------------------------------------------------------------
\* Package overlay: the embedded font, extracted once per process.

MaxGoroutines == 2

Goroutines == 1..MaxGoroutines

FontTempPath == "TEMP/bgstatusservice/JetBrainsMono-Regular.ttf"

OnceInit == [done |-> FALSE, m |-> 0, runs |-> 0]
FontCacheInit == [cachedFontPath |-> "", fontPathErr |-> Nil, file |-> "absent"]

\* Variant: the mutex of the Once is not honoured.
MutexIgnored(once) == TRUE

\* sync.Once.doSlow: o.m.Lock() goes through when nobody holds the mutex.
MutexFree(once) == once.m = 0

GorIdle == [pc |-> "idle", fn |-> "", fontFile |-> "", err |-> Nil, img |-> NoImage]

RenderFunctions == {"RenderOverlay", "RenderOverlayWithColors", "RenderDualPanelOverlay"}

FontOutcomes == {"ok", "path", "face"}

\* Variant: a render function draws the panel without text when the font is missing.
RenderOverlayNoText(img, lines, font) ==
    [img |-> [img EXCEPT !.layers = @ + 1, !.format = "rgba"], err |-> Nil]

\* RenderOverlay draws one panel onto a copy of the image; it fails when the
\* font cannot be extracted (getFontPath) or loaded (LoadFontFace).
RenderOverlay(img, lines, font) ==
    IF font = "path" THEN [img |-> NoImage, err |-> "failed to get font path"]
    ELSE IF font = "face" THEN [img |-> NoImage, err |-> "failed to load font"]
    ELSE [img |-> [img EXCEPT !.layers = @ + 1, !.format = "rgba"], err |-> Nil]

RenderOverlayWithColors(img, lines, colors, font) ==
    IF font = "path" THEN [img |-> NoImage, err |-> "failed to get font path"]
    ELSE IF font = "face" THEN [img |-> NoImage, err |-> "failed to load font"]
    ELSE [img |-> [img EXCEPT !.layers = @ + 1, !.format = "rgba"], err |-> Nil]

\* A panel is drawn for each non-empty list of lines.
RenderDualPanelOverlay(img, leftLines, rightLines, font) ==
    IF font = "path" THEN [img |-> NoImage, err |-> "failed to get font path"]
    ELSE IF font = "face" THEN [img |-> NoImage, err |-> "failed to load font"]
    ELSE LET panels == (IF Len(leftLines) > 0 THEN 1 ELSE 0) + (IF Len(rightLines) > 0 THEN 1 ELSE 0)
         IN [img |-> [img EXCEPT !.layers = @ + panels, !.format = "rgba"], err |-> Nil]

SomeLines == <<"HOST1", "Windows 11">>
LineLists == {<<>>, SomeLines}

Render(fn, img, left, right, font) ==
    CASE fn = "RenderOverlay" -> RenderOverlay(img, right, font)
      [] fn = "RenderOverlayWithColors" -> RenderOverlayWithColors(img, right, "LightOnDark", font)
      [] fn = "RenderDualPanelOverlay" -> RenderDualPanelOverlay(img, left, right, font)

FontFrame == UNCHANGED <<serviceVars, renderCall, dl, scaleCall, brightCall, moreVars>>

\* A goroutine calls a render function, which calls getFontPath.
GoRender(g) ==
    /\ gor[g].pc = "idle"
    /\ \E fn \in RenderFunctions : gor' = [gor EXCEPT ![g] = [GorIdle EXCEPT !.pc = "once", !.fn = fn]]
    /\ UNCHANGED <<fontOnce, fontCache>>
    /\ FontFrame

\* Once.Do: if o.done.Load() == 0 { o.doSlow(f) }
OnceDo(g) ==
    /\ gor[g].pc = "once"
    /\ gor' = [gor EXCEPT ![g].pc = IF fontOnce.done THEN "return" ELSE "lock"]
    /\ UNCHANGED <<fontOnce, fontCache>>
    /\ FontFrame

\* doSlow: o.m.Lock(); if o.done.Load() == 0 { defer o.done.Store(1); f() }
OnceLock(g) ==
    /\ gor[g].pc = "lock"
    /\ MutexFree(fontOnce)
    /\ IF fontOnce.done
       THEN /\ gor' = [gor EXCEPT ![g].pc = "return"]
            /\ UNCHANGED fontOnce
       ELSE /\ gor' = [gor EXCEPT ![g].pc = "readfont"]
            /\ fontOnce' = [fontOnce EXCEPT !.m = g, !.runs = @ + 1]
    /\ UNCHANGED fontCache
    /\ FontFrame

\* The body: fontData.ReadFile
ExtractRead(g) ==
    /\ gor[g].pc = "readfont"
    /\ \E ok \in BOOLEAN :
         IF ok THEN gor' = [gor EXCEPT ![g].pc = "mkdir"] /\ UNCHANGED fontCache
         ELSE /\ gor' = [gor EXCEPT ![g].pc = "unlock"]
              /\ fontCache' = [fontCache EXCEPT !.fontPathErr = "failed to read embedded font"]
    /\ UNCHANGED fontOnce
    /\ FontFrame

\* The body: os.MkdirAll, then cachedFontPath is assigned
ExtractMkdir(g) ==
    /\ gor[g].pc = "mkdir"
    /\ \E ok \in BOOLEAN :
         IF ok THEN /\ gor' = [gor EXCEPT ![g].pc = "write"]
                    /\ fontCache' = [fontCache EXCEPT !.cachedFontPath = FontTempPath]
         ELSE /\ gor' = [gor EXCEPT ![g].pc = "unlock"]
              /\ fontCache' = [fontCache EXCEPT !.fontPathErr = "failed to create temp dir"]
    /\ UNCHANGED fontOnce
    /\ FontFrame

\* The body: os.WriteFile
ExtractWrite(g) ==
    /\ gor[g].pc = "write"
    /\ \E o \in {"ok", "create", "write"} :
         fontCache' =
            CASE o = "ok" -> [fontCache EXCEPT !.file = "font"]
              [] o = "create" -> [fontCache EXCEPT !.fontPathErr = "failed to write font file"]
              [] o = "write" -> [fontCache EXCEPT !.fontPathErr = "failed to write font file",
                                                  !.file = "partial"]
    /\ gor' = [gor EXCEPT ![g].pc = "unlock"]
    /\ UNCHANGED fontOnce
    /\ FontFrame

\* Variant: the Once forgets that it has run.
OnceForgets(once) == [once EXCEPT !.done = FALSE, !.m = 0]

\* o.done.Store(1); o.m.Unlock()
OnceDone(once) == [once EXCEPT !.done = TRUE, !.m = 0]

\* The deferred o.done.Store(1) and o.m.Unlock()
OnceUnlock(g) ==
    /\ gor[g].pc = "unlock"
    /\ fontOnce' = OnceDone(fontOnce)
    /\ gor' = [gor EXCEPT ![g].pc = "return"]
    /\ UNCHANGED fontCache
    /\ FontFrame

\* getFontPath returns ("", fontPathErr) or (cachedFontPath, nil).
GetFontPathReturn(g) ==
    /\ gor[g].pc = "return"
    /\ gor' = [gor EXCEPT ![g].pc = "face",
                          ![g].err = fontCache.fontPathErr,
                          ![g].fontFile = IF fontCache.fontPathErr # Nil THEN ""
                                          ELSE fontCache.cachedFontPath]
    /\ UNCHANGED <<fontOnce, fontCache>>
    /\ FontFrame

\* The rest of the render function: dc.LoadFontFace, then the drawing.
RenderFinish(g) ==
    /\ gor[g].pc = "face"
    /\ \E faceOk \in BOOLEAN, img \in {UserPicture, CreateDefaultBackground(DefaultWidth, DefaultHeight)}, left \in LineLists :
         LET font == IF gor[g].err # Nil THEN "path"
                     ELSE IF ~faceOk \/ fontCache.file # "font" THEN "face" ELSE "ok"
             r == Render(gor[g].fn, img, left, SomeLines, font)
         IN gor' = [gor EXCEPT ![g].pc = "done", ![g].img = r.img, ![g].err = r.err]
    /\ UNCHANGED <<fontOnce, fontCache>>
    /\ FontFrame

\* The goroutine goes on to its next render call.
GoAgain(g) ==
    /\ gor[g].pc = "done"
    /\ gor' = [gor EXCEPT ![g] = GorIdle]
    /\ UNCHANGED <<fontOnce, fontCache>>
    /\ FontFrame

-----------------------------------------------------------------------------
\* runStatusUpdate, stage by stage.

RunInit ==
    [sourceImagePath |-> EmptyPath, sourceImage |-> NoImage, resultImage |-> NoImage,
     err |-> Nil, returned |-> FALSE, stages |-> <<>>,
     hadBackup |-> FALSE, probes |-> <<>>, found |-> EmptyPath, backupArgs |-> <<>>,
     quietStart |-> FALSE, afterBgchanger |-> FALSE, font |-> ""]

Install(w) ==
    /\ files' = w.files
    /\ policyReg' = w.policyReg
    /\ cspReg' = w.cspReg
    /\ spotlight' = w.spotlight

\* Variant: the error is noted and the run goes on.
ReturnNoted(r, err) == [r EXCEPT !.err = err]

Return(r, err) == [r EXCEPT !.err = err, !.returned = TRUE]

\* Step 1, first part: choose the source (and back the original up).
ResolveSourceRun(r0, bo) ==
    LET r == [r0 EXCEPT !.stages = <<"resolve">>, !.hadBackup = Stat(GetBackupPath), !.quietStart = quiet,
                         !.afterBgchanger = bgSet] IN
    IF HasBackup
    THEN LET g == GetBackupImage IN
         IF g.err # Nil
         THEN [w |-> World, run |-> Return(r, "failed to get backup image")]
         ELSE [w |-> World, run |-> [r EXCEPT !.sourceImagePath = g.path]]
    ELSE LET c == GetCurrentLoginScreenImage IN
         IF c.err # Nil
         THEN [w |-> World,
               run |-> [r EXCEPT !.probes = c.probes,
                                 !.sourceImage = CreateDefaultBackground(DefaultWidth, DefaultHeight)]]
         ELSE LET b == BackupOriginalImage(World, c.path, bo) IN
              [w |-> b.w,
               run |-> [r EXCEPT !.probes = c.probes, !.found = c.path, !.sourceImagePath = c.path,
                                 !.backupArgs = <<c.path>>]]

ResolveSource ==
    /\ pc = "idle" /\ bgpc = "idle" /\ runs < MaxRuns
    /\ \E bo \in BackupOutcomes :
         LET res == ResolveSourceRun(RunInit, bo) IN
         /\ Install(res.w)
         /\ run' = res.run
         /\ pc' = IF res.run.returned THEN "returned" ELSE "load"
    /\ runs' = runs + 1
    /\ quiet' = TRUE
    /\ bgSet' = FALSE
    /\ apply' = NoApply
    /\ UNCHANGED <<ext, bgpc>>
    /\ UNCHANGED sideVars

\* Step 1, second part: load the source unless the default was created.
LoadSource ==
    /\ pc = "load"
    /\ \E o \in LoadOutcomes :
         LET r == [run EXCEPT !.stages = Append(@, "load")] IN
         IF run.sourceImage = NoImage
         THEN LET l == LoadImage(World, run.sourceImagePath, o) IN
              IF l.err # Nil
              THEN run' = Return(r, "failed to load source image") /\ pc' = "returned"
              ELSE run' = [r EXCEPT !.sourceImage = l.img] /\ pc' = "gather"
         ELSE run' = r /\ pc' = "gather"
    /\ UNCHANGED <<files, policyReg, cspReg, spotlight, apply, runs, ext, quiet, bgpc, bgSet>>
    /\ UNCHANGED sideVars

\* Step 2.
GatherInfo ==
    /\ pc = "gather"
    /\ LET r == [run EXCEPT !.stages = Append(@, "gather")] IN
       IF Gather.err # Nil
       THEN run' = Return(r, "failed to gather system info") /\ pc' = "returned"
       ELSE run' = r /\ pc' = "render"
    /\ UNCHANGED <<files, policyReg, cspReg, spotlight, apply, runs, ext, quiet, bgpc, bgSet>>
    /\ UNCHANGED sideVars

\* Step 3.
RenderStage ==
    /\ pc = "render"
    /\ \E font \in FontOutcomes :
         LET r == [run EXCEPT !.stages = Append(@, "render"), !.font = font]
             o == RenderOverlay(run.sourceImage, Gather.lines, font)
         IN IF o.err # Nil
            THEN run' = Return(r, "failed to render overlay") /\ pc' = "returned"
            ELSE run' = [r EXCEPT !.resultImage = o.img] /\ pc' = "save"
    /\ UNCHANGED <<files, policyReg, cspReg, spotlight, apply, runs, ext, quiet, bgpc, bgSet>>
    /\ UNCHANGED sideVars

\* Step 4.
SaveOutput ==
    /\ pc = "save"
    /\ \E o \in SaveOutcomes :
         LET r == [run EXCEPT !.stages = Append(@, "save")]
             s == SaveImage(World, run.resultImage, OutputPath, ".jpg", o)
         IN /\ Install(s.w)
            /\ IF s.err # Nil
               THEN run' = Return(r, "failed to save modified image") /\ pc' = "returned"
               ELSE run' = r /\ pc' = "apply"
    /\ UNCHANGED <<apply, runs, ext, quiet, bgpc, bgSet>>
    /\ UNCHANGED sideVars

\* Step 5.
ApplyStage ==
    /\ pc = "apply"
    /\ \E in \in ApplierInputs(ServiceOutcomes, 3) :
         LET r == [run EXCEPT !.stages = Append(@, "apply")]
             a == SetLoginScreenImage(World, OutputPath, in.absOk, in.os[1], in.os[2], in.os[3])
         IN /\ Install(a.w)
            /\ apply' = Report(a)
            /\ run' = Return(r, IF a.ret # NilRet THEN "failed to set login screen" ELSE Nil)
    /\ pc' = "returned"
    /\ UNCHANGED <<runs, ext, quiet, bgpc, bgSet>>
    /\ UNCHANGED sideVars

\* runStatusUpdate has returned: its locals are gone.
Exit ==
    /\ pc = "returned"
    /\ pc' = "idle"
    /\ run' = RunInit
    /\ apply' = NoApply
    /\ UNCHANGED <<files, policyReg, cspReg, spotlight, runs, ext, quiet, bgpc, bgSet>>
    /\ UNCHANGED sideVars

-----------------------------------------------------------------------------
\* Other programs.

\* loginscreen.InvalidateBackup
InvalidateBackupIn(w, removeOk) ==
    IF ~StatIn(w, GetBackupPath) THEN Done(w, Nil)
    ELSE IF ~removeOk THEN Done(w, "remove failed")
    ELSE Done([w EXCEPT !.files[GetBackupPath] = NoFile], Nil)

InvalidateBackup ==
    /\ pc = "idle" /\ bgpc = "idle" /\ ext < MaxExternal
    /\ \E removeOk \in BOOLEAN : Install(InvalidateBackupIn(World, removeOk).w)
    /\ ext' = ext + 1
    /\ quiet' = FALSE
    /\ UNCHANGED <<pc, run, apply, runs, bgpc, bgSet>>
    /\ UNCHANGED sideVars

\* bgchanger main, lock screen part.
BgLockScreen ==
    /\ pc = "idle" /\ bgpc = "idle" /\ ext < MaxExternal
    /\ Stat(UserImage)
    /\ \E in \in ApplierInputs(LockScreenOutcomes, 4) :
         LET a == setLockScreenWallpaper(World, UserImage, in.absOk, in.os) IN
         /\ Install(a.w)
         /\ apply' = Report(a)
    /\ bgpc' = "login"
    /\ ext' = ext + 1
    /\ quiet' = FALSE
    /\ UNCHANGED <<pc, run, runs, bgSet>>
    /\ UNCHANGED sideVars

\* bgchanger main, login screen part.
BgLoginScreen ==
    /\ bgpc = "login"
    /\ \E in \in ApplierInputs(LoginScreenOutcomes, 2) :
         LET a == setLoginScreenBackground(World, UserImage, in.absOk, in.os) IN
         /\ Install(a.w)
         /\ apply' = Report(a)
         /\ bgSet' = (bgSet \/ a.ret = NilRet)
    /\ bgpc' = "summary"
    /\ quiet' = FALSE
    /\ UNCHANGED <<pc, run, runs, ext>>
    /\ UNCHANGED sideVars

\* bgchanger prints its summary and exits.
BgExit ==
    /\ bgpc = "summary"
    /\ bgpc' = "idle"
    /\ apply' = NoApply
    /\ UNCHANGED <<files, policyReg, cspReg, spotlight, pc, run, runs, ext, quiet, bgSet>>
    /\ UNCHANGED sideVars

-----------------------------------------------------------------------------
\* Package installer: DownloadFile / DownloadFileWithContext.

MaxDownloads == 2
MaxChunks == 2

DestPath == "TEMP/bgStatusService.exe"

\* Variant: the download is written straight to destPath.
TempPathIsDest(destPath) == destPath

\* tempPath := destPath + ".tmp"
TempPath(destPath) == destPath \o ".tmp"

DiskPaths == {DestPath, DestPath \o ".tmp"}

\* A file holds the first n chunks of a version; the download has MaxChunks.
Absent == [version |-> "none", n |-> 0]
Previous == [version |-> "old", n |-> MaxChunks]
Downloaded(n) == [version |-> "new", n |-> n]

DlIdle(disk, calls) ==
    [pc |-> "idle", disk |-> disk, before |-> disk, calls |-> calls, tempPath |-> "",
     deferred |-> FALSE, open |-> FALSE, got |-> 0, err |-> Nil]

DlFrame == UNCHANGED <<serviceVars, fontVars, renderCall, scaleCall, brightCall, moreVars>>

DlStep(next) ==
    /\ dl' = next
    /\ DlFrame

\* return err: the deferred functions run before the caller sees the result.
DlFail(d, err) == [d EXCEPT !.err = err, !.pc = IF d.deferred THEN "defer" ELSE "returned"]

DownloadFile ==
    /\ dl.pc = "idle" /\ dl.calls < MaxDownloads
    /\ DlStep([DlIdle(dl.disk, dl.calls + 1) EXCEPT !.pc = "mkdir"])

DlMkdirAll ==
    /\ dl.pc = "mkdir"
    /\ \E ok \in BOOLEAN :
         DlStep(IF ok THEN [dl EXCEPT !.pc = "create"]
                ELSE DlFail(dl, "failed to create directory"))

\* os.Create truncates the file; the cleanup is deferred after it succeeded.
DlCreateTemp ==
    /\ dl.pc = "create"
    /\ \E ok \in BOOLEAN :
         LET t == TempPath(DestPath) IN
         DlStep(IF ok THEN [dl EXCEPT !.pc = "request", !.tempPath = t, !.disk[t] = Downloaded(0),
                                     !.open = TRUE, !.deferred = TRUE]
                ELSE DlFail(dl, "failed to create temp file"))

DlNewRequest ==
    /\ dl.pc = "request"
    /\ \E ok \in BOOLEAN :
         DlStep(IF ok THEN [dl EXCEPT !.pc = "do"] ELSE DlFail(dl, "failed to create request"))

DlClientDo ==
    /\ dl.pc = "do"
    /\ \E o \in {"200", "404", "error", "timeout", "cancelled"} :
         DlStep(CASE o = "200" -> [dl EXCEPT !.pc = "copy"]
                  [] o = "404" -> DlFail(dl, "download returned status")
                  [] o = "error" -> DlFail(dl, "failed to download")
                  [] o = "timeout" -> DlFail(dl, "download timed out")
                  [] o = "cancelled" -> DlFail(dl, "download cancelled"))

\* io.Copy: one read from the body and one write to the temp file per step.
DlCopy ==
    /\ dl.pc = "copy"
    /\ \E o \in {"ok", "error", "timeout", "cancelled"} :
         DlStep(CASE o = "ok" ->
                       IF dl.got = MaxChunks THEN [dl EXCEPT !.pc = "close"]
                       ELSE [dl EXCEPT !.got = @ + 1,
                                       !.disk[dl.tempPath] = Downloaded(dl.got + 1)]
                  [] o = "error" -> DlFail(dl, "failed to save file")
                  [] o = "timeout" -> DlFail(dl, "download timed out")
                  [] o = "cancelled" -> DlFail(dl, "download cancelled"))

DlClose ==
    /\ dl.pc = "close"
    /\ DlStep([dl EXCEPT !.open = FALSE, !.pc = "rename"])

\* os.Rename replaces destPath in one step.
DlRename ==
    /\ dl.pc = "rename"
    /\ \E ok \in BOOLEAN :
         DlStep(IF ~ok THEN DlFail(dl, "failed to finalize download")
                ELSE IF dl.tempPath = DestPath THEN [dl EXCEPT !.pc = "defer"]
                ELSE [dl EXCEPT !.pc = "defer", !.disk[DestPath] = dl.disk[dl.tempPath],
                                !.disk[dl.tempPath] = Absent])

\* defer: out.Close(); if os.Stat(tempPath) succeeds, os.Remove(tempPath)
DlDeferred ==
    /\ dl.pc = "defer"
    /\ DlStep([dl EXCEPT !.pc = "returned", !.open = FALSE,
                         !.disk[dl.tempPath] = Absent])

DlReturned ==
    /\ dl.pc = "returned"
    /\ DlStep(DlIdle(dl.disk, dl.calls))

-----------------------------------------------------------------------------
\* Package overlay: the scaled layout.  The code computes in float64; here a
\* scale factor or a length is the integer number of 1/(1920*1080) units, in
\* which every quotient of the code is exact.

BaseWidth == 1920
BaseHeight == 1080
BaseFontSize == 18
BasePadding == 20
BaseLineSpacing == 6
BaseCornerRadius == 10
BaseMarginRight == 40
BaseMarginLeft == 40
BaseMarginTop == 80
MinFontSize == 12

Unit == BaseWidth * BaseHeight
\* MinScaleFactor = 0.6, MaxScaleFactor = 1.0
MinScaleFactor == (6 * Unit) \div 10
MaxScaleFactor == Unit * 1

\* Variant: the larger ratio is used.
LargerScale(scaleX, scaleY) == IF scaleY > scaleX THEN scaleY ELSE scaleX

\* scale := scaleX; if scaleY < scaleX { scale = scaleY }
SmallerScale(scaleX, scaleY) == IF scaleY < scaleX THEN scaleY ELSE scaleX

\* Variant: the lower bound is not applied.
ClampScaleAbove(scale) == IF scale > MaxScaleFactor THEN MaxScaleFactor ELSE scale

ClampScale(scale) ==
    LET s == IF scale < MinScaleFactor THEN MinScaleFactor ELSE scale
    IN IF s > MaxScaleFactor THEN MaxScaleFactor ELSE s

calculateScaledDimensionsForResolution(width, height) ==
    LET scaleX == width * BaseHeight
        scaleY == height * BaseWidth
        scale == ClampScale(SmallerScale(scaleX, scaleY))
        fontSize == IF BaseFontSize * scale < MinFontSize * Unit THEN MinFontSize * Unit
                    ELSE BaseFontSize * scale
    IN [FontSize |-> fontSize,
        Padding |-> BasePadding * scale,
        LineSpacing |-> BaseLineSpacing * scale,
        CornerRadius |-> BaseCornerRadius * scale,
        MarginRight |-> BaseMarginRight * scale,
        MarginLeft |-> BaseMarginLeft * scale,
        MarginTop |-> BaseMarginTop * scale,
        ScaleFactor |-> scale]

Widths == {-1920, -1, 0, 1, 640, 1024, 1151, 1152, 1153, 1280, 1600, 1919, 1920, 1921, 3840, 7680}
Heights == {-1080, -1, 0, 1, 480, 647, 648, 649, 720, 768, 900, 1079, 1080, 1081, 2160, 4320}

ScaleIdle ==
    [called |-> FALSE, width |-> 0, height |-> 0, dims |-> calculateScaledDimensionsForResolution(0, 0)]

SideFrameScale == UNCHANGED <<serviceVars, fontVars, renderCall, dl, brightCall, moreVars>>

CalculateScaledDimensions ==
    /\ ~scaleCall.called
    /\ \E width \in Widths, height \in Heights :
         scaleCall' = [called |-> TRUE, width |-> width, height |-> height,
                       dims |-> calculateScaledDimensionsForResolution(width, height)]
    /\ SideFrameScale

ScaledDimensionsUsed ==
    /\ scaleCall.called
    /\ scaleCall' = ScaleIdle
    /\ SideFrameScale

-----------------------------------------------------------------------------
\* Package overlay: AnalyzeRegionBrightness.

Stride == 4
LightThreshold == 128

\* Colours, 8 bits per channel.
Black == <<0, 0, 0>>
White == <<255, 255, 255>>
Gray128 == <<128, 128, 128>>
Warm == <<207, 215, 221>>
Dusk == <<49, 41, 35>>

\* A picture is its bounds and a rule giving the colour of each pixel.
Picture(minX, minY, maxX, maxY, pattern) ==
    [minX |-> minX, minY |-> minY, maxX |-> maxX, maxY |-> maxY, pattern |-> pattern]

Patterns == {"black", "white", "gray128", "warmdusk", "dots", "leftwhite"}

\* The bottom of the box RenderOverlay draws around one line of text.
OneLineBoxBottom == BaseMarginTop + BaseFontSize + (BasePadding * 2)

PixelAt(img, px, py) ==
    CASE img.pattern = "black" -> Black
      [] img.pattern = "white" -> White
      [] img.pattern = "gray128" -> Gray128
      [] img.pattern = "warmdusk" -> IF (px \div Stride) % 2 = 0 THEN Warm ELSE Dusk
      [] img.pattern = "dots" -> IF px % Stride = 0 /\ py % Stride = 0 THEN White ELSE Black
      [] img.pattern = "leftwhite" -> IF px < img.minX + Stride THEN White ELSE Black
      [] img.pattern = "whitecorner" ->
            IF px < img.maxX - BaseMarginRight /\ py < OneLineBoxBottom THEN White ELSE Black

\* color.RGBA(): each channel widened to 16 bits; r >> 8 narrows it again.
RGBA(c) == [i \in 1..3 |-> c[i] * 257]
Shr8(v) == v \div 256

\* 0.299*r8 + 0.587*g8 + 0.114*b8 in float64: the exact value in thousandths,
\* and the side on which the float64 result lies (0.299*128 + 0.587*128 +
\* 0.114*128 gives 127.99999999999999; <<207, 215, 221>> gives
\* 213.29200000000003 and <<49, 41, 35>> gives 42.708000000000006).
Luminance(c) ==
    LET v == RGBA(c)
        r8 == Shr8(v[1])
        g8 == Shr8(v[2])
        b8 == Shr8(v[3])
    IN [milli |-> 299 * r8 + 587 * g8 + 114 * b8,
        excess |-> CASE c = Gray128 -> -1
                     [] c \in {Warm, Dusk} -> 1
                     [] OTHER -> 0]

SampleStarts(from, length) == {p \in from..(from + length - 1) : (p - from) % Stride = 0}

\* totalLuminance += luminance for every sampled pixel: the pixels of one
\* colour add the same amount each.
RECURSIVE SumByColour(_, _, _)
SumByColour(img, cells, colours) ==
    IF colours = {} THEN [milli |-> 0, excess |-> 0]
    ELSE LET k == CHOOSE q \in colours : TRUE
             n == Cardinality({c \in cells : PixelAt(img, c[1], c[2]) = k})
             l == Luminance(k)
             rest == SumByColour(img, cells, colours \ {k})
         IN [milli |-> n * l.milli + rest.milli, excess |-> n * l.excess + rest.excess]

TotalLuminance(img, cells) ==
    SumByColour(img, cells, {PixelAt(img, c[1], c[2]) : c \in cells})

\* avgLuminance > 128, on the float64 sum
AboveThreshold(total, pixelCount) ==
    \/ total.milli > LightThreshold * 1000 * pixelCount
    \/ total.milli = LightThreshold * 1000 * pixelCount /\ total.excess > 0

AnalyzeRegionBrightness(img, x0, y0, width0, height0) ==
    LET x == IF x0 < img.minX THEN img.minX ELSE x0
        y == IF y0 < img.minY THEN img.minY ELSE y0
        width == IF x + width0 > img.maxX THEN img.maxX - x ELSE width0
        height == IF y + height0 > img.maxY THEN img.maxY - y ELSE height0
    IN IF width <= 0 \/ height <= 0 THEN FALSE
       ELSE LET cells == SampleStarts(x, width) \X SampleStarts(y, height)
                pixelCount == Cardinality(cells)
            IN IF pixelCount = 0 THEN FALSE
               ELSE AboveThreshold(TotalLuminance(img, cells), pixelCount)

\* The pixels the loops of AnalyzeRegionBrightness read with img.At.
SampledPixels(img, x0, y0, width0, height0) ==
    LET x == IF x0 < img.minX THEN img.minX ELSE x0
        y == IF y0 < img.minY THEN img.minY ELSE y0
        width == IF x + width0 > img.maxX THEN img.maxX - x ELSE width0
        height == IF y + height0 > img.maxY THEN img.maxY - y ELSE height0
    IN IF width <= 0 \/ height <= 0 THEN {}
       ELSE SampleStarts(x, width) \X SampleStarts(y, height)

Pictures ==
    {Picture(b[1], b[2], b[3], b[4], p) :
        b \in {<<0, 0, 8, 4>>, <<1, 1, 9, 6>>, <<0, 0, 0, 0>>}, p \in Patterns}

RegionXs == {-4, -1, 0, 1, 4, 8, 12}
RegionWidths == {-1, 0, 1, 4, 5, 8, 9, 16}
RegionYs == {-1, 0, 1, 4}
RegionHeights == {0, 1, 4, 5}

BrightIdle ==
    [called |-> FALSE, img |-> Picture(0, 0, 0, 0, "black"), x |-> 0, y |-> 0,
     width |-> 0, height |-> 0, light |-> FALSE]

SideFrameBright == UNCHANGED <<serviceVars, fontVars, renderCall, dl, scaleCall, moreVars>>

AnalyzeRegion ==
    /\ ~brightCall.called
    /\ \E img \in Pictures, x \in RegionXs, y \in RegionYs,
          width \in RegionWidths, height \in RegionHeights :
         brightCall' = [called |-> TRUE, img |-> img, x |-> x, y |-> y,
                        width |-> width, height |-> height,
                        light |-> AnalyzeRegionBrightness(img, x, y, width, height)]
    /\ SideFrameBright

BrightnessUsed ==
    /\ brightCall.called
    /\ brightCall' = BrightIdle
    /\ SideFrameBright

-----------------------------------------------------------------------------
\* A client of package overlay calls one of its render functions.
RenderIdle == [called |-> FALSE, fn |-> "", font |-> "", img |-> NoImage, err |-> Nil]

CallRender ==
    /\ \E fn \in RenderFunctions, font \in FontOutcomes, left \in LineLists,
          img \in {UserPicture, CreateDefaultBackground(DefaultWidth, DefaultHeight)} :
         LET r == Render(fn, img, left, SomeLines, font) IN
         renderCall' = [called |-> TRUE, fn |-> fn, font |-> font, img |-> r.img, err |-> r.err]
    /\ UNCHANGED <<serviceVars, fontVars, dl, scaleCall, brightCall, moreVars>>

-----------------------------------------------------------------------------
\* Package overlay: where the panels go and how they are coloured.
\* Lengths are float64 in the code; here they are exact fractions n/d.

RECURSIVE Gcd(_, _)
Gcd(a, b) == IF b = 0 THEN a ELSE Gcd(b, a % b)

Abs(a) == IF a < 0 THEN -a ELSE a

Frac(n, d) == LET g == Gcd(Abs(n), d) IN [n |-> n \div g, d |-> d \div g]
Whole(k) == [n |-> k, d |-> 1]
Plus(a, b) == Frac(a.n * b.d + b.n * a.d, a.d * b.d)
Minus(a, b) == Frac(a.n * b.d - b.n * a.d, a.d * b.d)
Times(a, b) ==
    LET g1 == Gcd(Abs(a.n), b.d)
        g2 == Gcd(Abs(b.n), a.d)
    IN Frac((a.n \div g1) * (b.n \div g2), (a.d \div g2) * (b.d \div g1))
Less(a, b) == a.n * b.d < b.n * a.d

\* int(f): the fraction is dropped, towards zero.
Trunc(a) == IF a.n >= 0 THEN a.n \div a.d ELSE -((-a.n) \div a.d)

\* sysinfo.GetDisplayResolution: the first video controller that reports a
\* positive resolution, 1920x1080 when the query fails or none does.
RECURSIVE FirstValid(_, _)
FirstValid(controllers, i) ==
    IF i > Len(controllers) THEN <<1920, 1080>>
    ELSE IF controllers[i][1] > 0 /\ controllers[i][2] > 0 THEN controllers[i]
    ELSE FirstValid(controllers, i + 1)

GetDisplayResolution(controllers) == FirstValid(controllers, 1)

\* The dimensions of calculateScaledDimensionsForResolution as fractions.
CalculateScaledDimensionsForDisplay(controllers) ==
    LET displayRes == GetDisplayResolution(controllers)
        d == calculateScaledDimensionsForResolution(displayRes[1], displayRes[2])
    IN [k \in DOMAIN d |-> Frac(d[k], Unit)]

\* The constants RenderOverlay uses, whatever the display.
LegacyDimensions ==
    [FontSize |-> Whole(BaseFontSize), Padding |-> Whole(BasePadding),
     LineSpacing |-> Whole(BaseLineSpacing), CornerRadius |-> Whole(BaseCornerRadius),
     MarginRight |-> Whole(BaseMarginRight), MarginLeft |-> Whole(BaseMarginLeft),
     MarginTop |-> Whole(BaseMarginTop), ScaleFactor |-> Whole(1)]

\* dc.MeasureString on the embedded face: JetBrains Mono advances 0.6 em for
\* every character.  A line of text is given by its number of characters.
MeasureString(line, fontSize) == Times(Frac(3 * line, 5), fontSize)

RECURSIVE MaxLineWidth(_, _, _)
MaxLineWidth(lines, i, fontSize) ==
    IF i > Len(lines) THEN Whole(0)
    ELSE LET w == MeasureString(lines[i], fontSize)
             rest == MaxLineWidth(lines, i + 1, fontSize)
         IN IF Less(rest, w) THEN w ELSE rest

\* boxWidth := maxLineWidth + Padding*2; boxHeight := textHeight + Padding*2 - LineSpacing
BoxSize(lines, dims) ==
    LET lineHeight == Plus(dims.FontSize, dims.LineSpacing)
        textHeight == Times(lineHeight, Whole(Len(lines)))
    IN [w |-> Plus(MaxLineWidth(lines, 1, dims.FontSize), Times(dims.Padding, Whole(2))),
        h |-> Minus(Plus(textHeight, Times(dims.Padding, Whole(2))), dims.LineSpacing)]

Box(x, y, size) == [x |-> x, y |-> y, w |-> size.w, h |-> size.h]
Rect(x, y, w, h) == [x |-> x, y |-> y, w |-> w, h |-> h]

Width(img) == img.maxX - img.minX
Height(img) == img.maxY - img.minY

Scheme(isLight) == IF isLight THEN "DarkOnLight" ELSE "LightOnDark"

\* ChooseTextColor returns the region it has analysed and the scheme.
ChooseTextColor(img, boxWidth, boxHeight) ==
    LET imgWidth == Width(img)
        regionX0 == imgWidth - boxWidth - BaseMarginRight
        regionY == BaseMarginTop
        regionWidth == boxWidth + (BasePadding * 2)
        regionHeight == boxHeight + (BasePadding * 2)
        regionX == IF regionX0 < 0 THEN 0 ELSE regionX0
    IN [region |-> Rect(regionX, regionY, regionWidth, regionHeight),
        colors |-> Scheme(AnalyzeRegionBrightness(img, regionX, regionY, regionWidth, regionHeight))]

\* A box is painted when it is drawn and some of it lies on the canvas.
OnCanvas(img, box) ==
    /\ Less(Whole(0), box.w) /\ Less(Whole(0), box.h)
    /\ Less(box.x, Whole(Width(img))) /\ Less(Whole(0), Plus(box.x, box.w))
    /\ Less(box.y, Whole(Height(img))) /\ Less(Whole(0), Plus(box.y, box.h))

Panel(lines, box, region, colors, drawn) ==
    [used |-> TRUE, lines |-> lines, box |-> box, region |-> region, colors |-> colors,
     drawn |-> drawn]

NoPanel ==
    [used |-> FALSE, lines |-> <<>>, box |-> Box(Whole(0), Whole(0), [w |-> Whole(0), h |-> Whole(0)]),
     region |-> Rect(0, 0, 0, 0), colors |-> "", drawn |-> FALSE]

\* RenderOverlay with the font loaded: one panel in the upper right corner,
\* coloured by ChooseTextColor and drawn whatever the lines are.
OverlayPanels(img, lines) ==
    LET dims == LegacyDimensions
        size == BoxSize(lines, dims)
        chosen == ChooseTextColor(img, Trunc(size.w), Trunc(size.h))
        boxX == Minus(Minus(Whole(Width(img)), size.w), dims.MarginRight)
        boxY == dims.MarginTop
    IN [left |-> NoPanel,
        right |-> Panel(lines, Box(boxX, boxY, size), chosen.region, chosen.colors, TRUE)]

\* Variant: the ratio of the display to the image.
ImageScaleInverse(size, displaySize) == Frac(displaySize, size)

\* imageScaleX := float64(width) / float64(displayRes.Width)
ImageScale(size, displaySize) == Frac(size, displaySize)

\* drawPanel is called for a panel that has lines.
PanelDrawn(lines) == Len(lines) > 0

\* RenderDualPanelOverlay with the font loaded.
DualPanels(img, leftLines, rightLines, controllers) ==
    LET displayRes == GetDisplayResolution(controllers)
        dims == CalculateScaledDimensionsForDisplay(controllers)
        imageScaleX == ImageScale(Width(img), displayRes[1])
        imageScaleY == ImageScale(Height(img), displayRes[2])
        marginLeft == Times(dims.MarginLeft, imageScaleX)
        marginRight == Times(dims.MarginRight, imageScaleX)
        marginTop == Times(dims.MarginTop, imageScaleY)
        leftSize == BoxSize(leftLines, dims)
        rightSize == BoxSize(rightLines, dims)
        leftBox == Box(marginLeft, marginTop, leftSize)
        rightBox == Box(Minus(Minus(Whole(Width(img)), rightSize.w), marginRight), marginTop, rightSize)
        regionOf(b) == Rect(Trunc(b.x), Trunc(b.y), Trunc(b.w), Trunc(b.h))
        isLight(b) == AnalyzeRegionBrightness(img, Trunc(b.x), Trunc(b.y), Trunc(b.w), Trunc(b.h))
    IN [left |-> Panel(leftLines, leftBox, regionOf(leftBox), Scheme(isLight(leftBox)),
                       PanelDrawn(leftLines)),
        right |-> Panel(rightLines, rightBox, regionOf(rightBox), Scheme(isLight(rightBox)),
                        PanelDrawn(rightLines))]

PanelFunctions == {"RenderOverlay", "RenderDualPanelOverlay"}

\* Decoded pictures: their bounds start at (0, 0).
PanelPictures ==
    {Picture(0, 0, b[1], b[2], p) :
        b \in {<<1920, 1080>>, <<400, 300>>, <<64, 200>>},
        p \in {"black", "white", "whitecorner", "leftwhite"}}

\* Lines of text, each given by its number of characters.
PanelTexts == {<<>>, <<5>>, <<5, 10>>}

ControllerLists == {<<>>, <<<<1920, 1080>>>>, <<<<0, 0>>, <<1024, 768>>>>, <<<<3840, 2160>>>>}

PanelIdle ==
    [called |-> FALSE, fn |-> "", img |-> Picture(0, 0, 0, 0, "black"), controllers |-> <<>>,
     panels |-> [left |-> NoPanel, right |-> NoPanel]]

PanelFrame == UNCHANGED <<serviceVars, fontVars, renderCall, dl, scaleCall, brightCall, setup, pw, svc, script>>

CallRenderOverlay ==
    /\ ~panelCall.called
    /\ \E img \in PanelPictures, lines \in PanelTexts :
         panelCall' = [called |-> TRUE, fn |-> "RenderOverlay", img |-> img, controllers |-> <<>>,
                       panels |-> OverlayPanels(img, lines)]
    /\ PanelFrame

CallRenderDualPanelOverlay ==
    /\ ~panelCall.called
    /\ \E img \in PanelPictures, leftLines \in PanelTexts, rightLines \in PanelTexts,
          controllers \in ControllerLists :
         panelCall' = [called |-> TRUE, fn |-> "RenderDualPanelOverlay", img |-> img,
                       controllers |-> controllers,
                       panels |-> DualPanels(img, leftLines, rightLines, controllers)]
    /\ PanelFrame

PanelsUsed ==
    /\ panelCall.called
    /\ panelCall' = PanelIdle
    /\ PanelFrame

-----------------------------------------------------------------------------
\* Package installer: the progress window.

MaxUserMessages == 2

\* The window does not exist yet.
NoWindow ==
    [created |-> FALSE, global |-> FALSE, canClose |-> FALSE, isComplete |-> FALSE,
     buttonEnabled |-> FALSE, destroyed |-> FALSE, quit |-> FALSE, queue |-> <<>>,
     setComplete |-> 0, userMessages |-> 0]

\* NewProgressWindow: canClose is false, the button is created disabled and
\* globalProgressWindow points to the window.
NewProgressWindow == [NoWindow EXCEPT !.created = TRUE, !.global = TRUE]

\* PostMessageW appends to the queue of the window's thread; a destroyed
\* window takes no messages.  Progress updates waiting at the end of the
\* queue are kept as one.
PostMessage(p, msg) ==
    IF ~p.created \/ p.destroyed THEN p
    ELSE IF msg = "WM_UPDATE_PROGRESS" /\ Len(p.queue) > 0 /\ p.queue[Len(p.queue)] = msg THEN p
    ELSE [p EXCEPT !.queue = Append(@, msg)]

\* DestroyWindow: the window procedure receives WM_DESTROY and calls
\* PostQuitMessage; what was queued for the window is dropped.
DestroyWindow(p) == [p EXCEPT !.destroyed = TRUE, !.quit = TRUE, !.queue = <<>>]

\* Variant: the window may be closed as soon as it exists.
MayCloseAlways(p) == p.global

\* globalProgressWindow != nil && globalProgressWindow.canClose
MayClose(p) == p.global /\ p.canClose

\* The window procedure, for the messages that reach it: a click on the close
\* button (WM_COMMAND from IDC_CLOSEBUTTON), WM_CLOSE and the messages the
\* package posts to itself.
wndProc(p, msg) ==
    CASE msg = "WM_COMMAND" -> IF MayClose(p) THEN DestroyWindow(p) ELSE p
      [] msg = "WM_CLOSE" -> IF MayClose(p) THEN DestroyWindow(p) ELSE p
      [] msg = "WM_UPDATE_PROGRESS" -> p
      [] msg = "WM_ENABLE_CLOSE" ->
            IF p.global THEN [p EXCEPT !.canClose = TRUE, !.buttonEnabled = TRUE] ELSE p
      [] msg = "WM_SET_COMPLETE" ->
            IF p.global
            THEN [p EXCEPT !.isComplete = TRUE, !.canClose = TRUE, !.buttonEnabled = TRUE]
            ELSE p

\* SetComplete: SetProgress(100), SetStatus(message), then WM_SET_COMPLETE is posted.
SetComplete(p) ==
    [PostMessage(PostMessage(p, "WM_UPDATE_PROGRESS"), "WM_SET_COMPLETE")
        EXCEPT !.setComplete = @ + 1]

\* ProcessMessages takes messages with PeekMessage until there is none; it
\* stops without dispatching at a WM_CLOSE when canClose is set.
RECURSIVE PumpAll(_)
PumpAll(p) ==
    IF p.queue = <<>> THEN p
    ELSE LET msg == Head(p.queue)
             rest == [p EXCEPT !.queue = Tail(@)]
         IN IF msg = "WM_CLOSE" /\ p.canClose THEN rest
            ELSE PumpAll(wndProc(rest, msg))

\* The worker goroutine calls ProcessMessages on whatever thread it runs on:
\* it finds the window's messages when that is the window's thread.
ProcessMessages(p, sameThread) == IF sameThread THEN PumpAll(p) ELSE p

-----------------------------------------------------------------------------
\* BgStatusSetup: runInstall and runUninstall.

\* What the machine has of the toolkit: the old Windows service, the scheduled tasks.
Machine(service, task) == [service |-> service, task |-> task]

SetupIdle(machine) ==
    [fn |-> "", main |-> "menu", chk |-> "off", checkDone |-> FALSE,
     serviceExists |-> FALSE, taskExists |-> FALSE, timedOut |-> FALSE,
     worker |-> "off", result |-> "", panicked |-> FALSE, shown |-> "",
     tempExe |-> FALSE, steps |-> <<>>, deleted |-> {}, machine |-> machine]

\* The picture of a run of the service on the OOBE picture.
Overlaid == [OobePicture EXCEPT !.layers = 1]

\* A machine the service has not run on, and one on which it has run once:
\* the backup, the output, the OOBE copy and the policy value are in place.
FreshFiles ==
    [p \in FilePaths |->
        IF p = UserImage THEN UserPicture ELSE IF p = OobeDefault THEN OobePicture ELSE NoFile]
RanFiles ==
    [p \in FilePaths |->
        IF p = UserImage THEN UserPicture ELSE IF p = GetBackupPath THEN OobePicture ELSE Overlaid]

\* installer.RunExecutableDirectly: the installed executable makes one run.
ServiceRan(w) == [w EXCEPT !.files = RanFiles, !.policyReg = RegVal(OutputPath)]

DataFiles(w) == {p \in FilePaths : p.dir = BackupDir /\ w.files[p] # NoFile}

\* installer.RemoveDataDirectory: os.RemoveAll(GetDataDir())
RemoveDataDirectory(w, ok) ==
    IF ok THEN [w EXCEPT !.files = [p \in FilePaths |-> IF p.dir = BackupDir THEN NoFile ELSE @[p]]]
    ELSE w

\* restoreOriginalBackground: reg delete of the PersonalizationCSP values.
restoreOriginalBackground(w, ok) ==
    [w EXCEPT !.cspReg = IF ok /\ @.key THEN RegNoValue ELSE @]

SetupFrame == UNCHANGED <<spotlight, pc, run, apply, runs, ext, quiet, bgpc, bgSet, fontVars,
                          renderCall, dl, scaleCall, brightCall, panelCall, svc>>
WorldKept == UNCHANGED <<files, policyReg, cspReg>>

\* main: AskInstallOrUninstall answered Install; runInstall creates the window,
\* starts the worker and enters RunMessageLoop.
ChooseInstall ==
    /\ setup.main = "menu" /\ script.pc = "off"
    /\ setup' = [setup EXCEPT !.fn = "runInstall", !.main = "loop", !.worker = "start"]
    /\ pw' = NewProgressWindow
    /\ WorldKept /\ UNCHANGED script /\ SetupFrame

\* main: Uninstall; runUninstall starts the goroutine that checks and waits.
ChooseUninstall ==
    /\ setup.main = "menu" /\ script.pc = "off"
    /\ setup' = [setup EXCEPT !.fn = "runUninstall", !.main = "select", !.chk = "service"]
    /\ WorldKept /\ UNCHANGED <<pw, script>> /\ SetupFrame

\* main: Cancel.
ChooseCancel ==
    /\ setup.main = "menu" /\ script.pc = "off"
    /\ setup' = [setup EXCEPT !.main = "returned"]
    /\ WorldKept /\ UNCHANGED <<pw, script>> /\ SetupFrame

\* The check goroutine: serviceExists, _ = installer.ServiceExists()
CheckServiceExists ==
    /\ setup.chk = "service"
    /\ \E connected \in BOOLEAN :
         setup' = [setup EXCEPT !.serviceExists = connected /\ setup.machine.service,
                                !.chk = "task"]
    /\ WorldKept /\ UNCHANGED <<pw, script>> /\ SetupFrame

\* The check goroutine: taskExists = installer.ScheduledTaskExists()
CheckScheduledTaskExists ==
    /\ setup.chk = "task"
    /\ setup' = [setup EXCEPT !.taskExists = setup.machine.task, !.chk = "send"]
    /\ WorldKept /\ UNCHANGED <<pw, script>> /\ SetupFrame

\* The check goroutine: checkDone <- true (the channel has room for one).
CheckSend ==
    /\ setup.chk = "send"
    /\ setup' = [setup EXCEPT !.checkDone = TRUE, !.chk = "done"]
    /\ WorldKept /\ UNCHANGED <<pw, script>> /\ SetupFrame

\* select: case <-checkDone
SelectCheckDone ==
    /\ setup.main = "select" /\ setup.checkDone
    /\ setup' = [setup EXCEPT !.checkDone = FALSE, !.main = "decide"]
    /\ WorldKept /\ UNCHANGED <<pw, script>> /\ SetupFrame

\* select: case <-time.After(15 * time.Second); the check goes on in its goroutine.
SelectTimeout ==
    /\ setup.main = "select"
    /\ setup' = [setup EXCEPT !.timedOut = TRUE, !.main = "decide"]
    /\ WorldKept /\ UNCHANGED <<pw, script>> /\ SetupFrame

\* if !serviceExists && !taskExists { ShowInfo; return }, else the window is
\* created, the worker started and RunMessageLoop entered.
DecideUninstall ==
    /\ setup.main = "decide"
    /\ IF ~setup.serviceExists /\ ~setup.taskExists
       THEN /\ setup' = [setup EXCEPT !.shown = "Not Installed", !.main = "returned"]
            /\ UNCHANGED pw
       ELSE /\ setup' = [setup EXCEPT !.main = "loop", !.worker = "start"]
            /\ pw' = NewProgressWindow
    /\ WorldKept /\ UNCHANGED script /\ SetupFrame

\* The worker runs while the process lives, that is until RunMessageLoop returns.
WorkerAt(position) == setup.main = "loop" /\ setup.worker = position

\* time.Sleep, pw.ProcessMessages(), then the first step.
WorkerStart ==
    /\ WorkerAt("start")
    /\ \E sameThread \in BOOLEAN : pw' = ProcessMessages(pw, sameThread)
    /\ setup' = [setup EXCEPT !.worker = IF setup.fn = "runInstall" THEN "checkService" ELSE "tasks"]
    /\ WorldKept /\ UNCHANGED script /\ SetupFrame

\* The steps of the uninstall worker, in order; the old service is removed
\* only if serviceExists.
RemovalSteps == <<"tasks", "service", "eventlog", "files", "data", "registry">>

NextUninstallStep(step, serviceExists) ==
    CASE step = "tasks" -> IF serviceExists THEN "service" ELSE "eventlog"
      [] step = "service" -> "eventlog"
      [] step = "eventlog" -> "files"
      [] step = "files" -> "data"
      [] step = "data" -> "registry"
      [] step = "registry" -> "complete"

\* DeleteScheduledTasks, StopService and DeleteService, RemoveEventLogSource,
\* RemoveInstallation, RemoveDataDirectory, restoreOriginalBackground: every
\* error is dropped and the next step follows.
UninstallStep ==
    /\ \E i \in 1..Len(RemovalSteps), ok \in BOOLEAN, sameThread \in BOOLEAN :
         LET step == RemovalSteps[i]
             w == CASE step = "data" -> RemoveDataDirectory(World, ok)
                    [] step = "registry" -> restoreOriginalBackground(World, ok)
                    [] OTHER -> World
             machine == CASE step = "tasks" /\ ok -> [setup.machine EXCEPT !.task = FALSE]
                          [] step = "service" /\ ok -> [setup.machine EXCEPT !.service = FALSE]
                          [] OTHER -> setup.machine
         IN /\ WorkerAt(step)
            /\ pw' = ProcessMessages(pw, sameThread)
            /\ files' = w.files /\ policyReg' = w.policyReg /\ cspReg' = w.cspReg
            /\ setup' = [setup EXCEPT !.worker = NextUninstallStep(step, setup.serviceExists),
                                      !.result = IF step = "registry" THEN "success" ELSE @,
                                      !.steps = Append(@, step),
                                      !.machine = machine,
                                      !.deleted = @ \cup (DataFiles(World) \ DataFiles(w))]
    /\ UNCHANGED script /\ SetupFrame

\* Install, step 1: ServiceExists in a goroutine, waited for 15 seconds; an
\* old service is stopped and deleted.
InstallCheckService ==
    /\ WorkerAt("checkService")
    /\ \E answered \in BOOLEAN, sameThread \in BOOLEAN :
         /\ pw' = ProcessMessages(pw, sameThread)
         /\ setup' = [setup EXCEPT !.serviceExists = answered /\ setup.machine.service,
                                   !.timedOut = ~answered,
                                   !.worker = IF answered /\ setup.machine.service
                                              THEN "removeService" ELSE "checkTask"]
    /\ WorldKept /\ UNCHANGED script /\ SetupFrame

InstallRemoveService ==
    /\ WorkerAt("removeService")
    /\ \E ok \in BOOLEAN, sameThread \in BOOLEAN :
         /\ pw' = ProcessMessages(pw, sameThread)
         /\ setup' = [setup EXCEPT !.machine.service = IF ok THEN FALSE ELSE @,
                                   !.worker = "checkTask"]
    /\ WorldKept /\ UNCHANGED script /\ SetupFrame

\* Install: ScheduledTaskExists in a goroutine, waited for 15 seconds;
\* existing tasks are deleted.
InstallCheckTask ==
    /\ WorkerAt("checkTask")
    /\ \E answered \in BOOLEAN, sameThread \in BOOLEAN :
         /\ pw' = ProcessMessages(pw, sameThread)
         /\ setup' = [setup EXCEPT !.taskExists = answered /\ setup.machine.task,
                                   !.worker = IF answered /\ setup.machine.task
                                              THEN "deleteTasks" ELSE "extract"]
    /\ WorldKept /\ UNCHANGED script /\ SetupFrame

InstallDeleteTasks ==
    /\ WorkerAt("deleteTasks")
    /\ \E ok \in BOOLEAN, sameThread \in BOOLEAN :
         /\ pw' = ProcessMessages(pw, sameThread)
         /\ setup' = [setup EXCEPT !.machine.task = IF ok THEN FALSE ELSE @, !.worker = "extract"]
    /\ WorldKept /\ UNCHANGED script /\ SetupFrame

\* Install, step 2: embed.ExtractServiceExe; on error SetComplete(false, ...) and return.
InstallExtract ==
    /\ WorkerAt("extract")
    /\ \E ok \in BOOLEAN, sameThread \in BOOLEAN :
         /\ pw' = ProcessMessages(pw, sameThread)
         /\ setup' = IF ok THEN [setup EXCEPT !.tempExe = TRUE, !.worker = "installTasks"]
                     ELSE [setup EXCEPT !.result = "Failed to extract service", !.worker = "complete"]
    /\ WorldKept /\ UNCHANGED script /\ SetupFrame

\* Install, step 3: installer.InstallScheduledTasks(exePath)
InstallTasks ==
    /\ WorkerAt("installTasks")
    /\ \E ok \in BOOLEAN, sameThread \in BOOLEAN :
         /\ pw' = ProcessMessages(pw, sameThread)
         /\ setup' = IF ok THEN [setup EXCEPT !.machine.task = TRUE, !.worker = "run"]
                     ELSE [setup EXCEPT !.result = "Failed to install scheduled tasks",
                                        !.worker = "complete"]
    /\ WorldKept /\ UNCHANGED script /\ SetupFrame

\* Install, step 4: installer.RunExecutableDirectly(); a failure still ends in success.
InstallRunExecutable ==
    /\ WorkerAt("run")
    /\ \E ok \in BOOLEAN, sameThread \in BOOLEAN :
         LET w == IF ok THEN ServiceRan(World) ELSE World IN
         /\ pw' = ProcessMessages(pw, sameThread)
         /\ files' = w.files /\ policyReg' = w.policyReg /\ cspReg' = w.cspReg
         /\ setup' = IF ok THEN [setup EXCEPT !.worker = "applyLockScreen"]
                     ELSE [setup EXCEPT !.result = "Installed (next boot)", !.worker = "complete"]
    /\ UNCHANGED script /\ SetupFrame

\* Install, step 5: applyLockScreenAsUser(); success either way.
InstallApplyLockScreen ==
    /\ WorkerAt("applyLockScreen")
    /\ \E ok \in BOOLEAN, sameThread \in BOOLEAN :
         /\ pw' = ProcessMessages(pw, sameThread)
         /\ setup' = [setup EXCEPT !.result = IF ok THEN "success" ELSE "Installed (next boot)",
                                   !.worker = "complete"]
    /\ WorldKept /\ UNCHANGED script /\ SetupFrame

\* pw.SetComplete(...) on the path the worker has taken, then the return,
\* with the deferred os.Remove(exePath).
WorkerSetComplete ==
    /\ WorkerAt("complete")
    /\ pw' = SetComplete(pw)
    /\ setup' = [setup EXCEPT !.worker = "done", !.tempExe = FALSE]
    /\ WorldKept /\ UNCHANGED script /\ SetupFrame

WorkerBody ==
    {"start", "tasks", "service", "eventlog", "files", "data", "registry", "checkService",
     "removeService", "checkTask", "deleteTasks", "extract", "installTasks", "run",
     "applyLockScreen"}

\* A panic in one of the worker's steps.
WorkerPanic ==
    /\ setup.main = "loop" /\ setup.worker \in WorkerBody
    /\ setup' = [setup EXCEPT !.worker = "recover", !.panicked = TRUE]
    /\ WorldKept /\ UNCHANGED <<pw, script>> /\ SetupFrame

\* Variant: the deferred function logs the crash and reports nothing.
RecoveredSilently(p) == p

\* The deferred function: recover(), logCrash, pw.SetComplete(false, errMsg)
Recovered(p) == SetComplete(p)

WorkerRecover ==
    /\ WorkerAt("recover")
    /\ pw' = Recovered(pw)
    /\ setup' = [setup EXCEPT !.worker = "done", !.result = "Unexpected error", !.tempExe = FALSE]
    /\ WorldKept /\ UNCHANGED script /\ SetupFrame

\* RunMessageLoop: GetMessage, TranslateMessage, DispatchMessage.
DispatchMessage ==
    /\ setup.main = "loop" /\ pw.queue # <<>>
    /\ pw' = wndProc([pw EXCEPT !.queue = Tail(@)], Head(pw.queue))
    /\ WorldKept /\ UNCHANGED <<setup, script>> /\ SetupFrame

\* RunMessageLoop: GetMessage returns 0 for WM_QUIT; globalProgressWindow = nil
\* and runInstall or runUninstall returns.
LoopExit ==
    /\ setup.main = "loop" /\ pw.quit /\ pw.queue = <<>>
    /\ pw' = [pw EXCEPT !.global = FALSE, !.quit = FALSE]
    /\ setup' = [setup EXCEPT !.main = "returned"]
    /\ WorldKept /\ UNCHANGED script /\ SetupFrame

\* The user closes the window from its title bar, or clicks the button.
UserMessage ==
    /\ pw.created /\ ~pw.destroyed /\ pw.userMessages < MaxUserMessages
    /\ \E msg \in {"WM_CLOSE", "WM_COMMAND"} :
         pw' = [PostMessage(pw, msg) EXCEPT !.userMessages = @ + 1]
    /\ WorldKept /\ UNCHANGED <<setup, script>> /\ SetupFrame

-----------------------------------------------------------------------------
\* install/uninstall.ps1, run as administrator.

ScriptIdle == [pc |-> "off", keepBackup |-> FALSE, restore |-> "", deleted |-> {}]

ScriptFrame == UNCHANGED <<spotlight, pc, run, apply, runs, ext, quiet, bgpc, bgSet, fontVars,
                           renderCall, dl, scaleCall, brightCall, panelCall, svc, pw>>

\* param([switch]$KeepBackup)
ScriptStart ==
    /\ script.pc = "off" /\ setup.main = "menu"
    /\ \E keepBackup \in BOOLEAN :
         script' = [script EXCEPT !.pc = "service", !.keepBackup = keepBackup]
    /\ WorldKept /\ UNCHANGED setup /\ ScriptFrame

\* Get-Service; Stop-Service and sc.exe delete.  $ErrorActionPreference is
\* "Stop": a failing Stop-Service ends the script.
ScriptRemoveService ==
    /\ script.pc = "service"
    /\ \E outcome \in {"ok", "stopfailed", "deletefailed"} :
         IF ~setup.machine.service THEN script' = [script EXCEPT !.pc = "restore"] /\ UNCHANGED setup
         ELSE CASE outcome = "ok" ->
                     /\ script' = [script EXCEPT !.pc = "restore"]
                     /\ setup' = [setup EXCEPT !.machine.service = FALSE]
                [] outcome = "stopfailed" ->
                     script' = [script EXCEPT !.pc = "aborted"] /\ UNCHANGED setup
                [] outcome = "deletefailed" ->
                     script' = [script EXCEPT !.pc = "restore"] /\ UNCHANGED setup
    /\ WorldKept /\ ScriptFrame

\* if (Test-Path $BackupFile): Read-Host; on "y" the backup is copied over the
\* OOBE background when the OOBE directory exists, and LockScreenImage is set
\* to $BackupFile when the policy key exists; a failure is caught and warned about.
ScriptRestore ==
    /\ script.pc = "restore"
    /\ \E answer \in {"y", "n"}, oobeDir \in BOOLEAN, copyOk \in BOOLEAN, ok \in BOOLEAN :
         LET asked == files[GetBackupPath] # NoFile
             yes == asked /\ answer = "y"
             copied == yes /\ copyOk /\ (oobeDir \/ files[OobeDefault] # NoFile)
         IN /\ script' = [script EXCEPT !.pc = "cleanup",
                                        !.restore = IF asked THEN answer ELSE "none"]
            /\ files' = IF copied THEN [files EXCEPT ![OobeDefault] = files[GetBackupPath]] ELSE files
            /\ policyReg' = IF yes /\ ok /\ policyReg.key THEN RegVal(GetBackupPath) ELSE policyReg
    /\ UNCHANGED <<cspReg, setup>> /\ ScriptFrame

\* Remove-EventLog for the source, Remove-Item for the program files.
ScriptCleanup ==
    /\ script.pc = "cleanup"
    /\ script' = [script EXCEPT !.pc = "data"]
    /\ WorldKept /\ UNCHANGED setup /\ ScriptFrame

\* if (Test-Path $DataDir): unless -KeepBackup, Remove-Item -Recurse -Force.
ScriptRemoveData ==
    /\ script.pc = "data"
    /\ \E ok \in BOOLEAN :
         LET w == IF script.keepBackup THEN World ELSE RemoveDataDirectory(World, ok) IN
         /\ files' = w.files
         /\ script' = [script EXCEPT !.pc = "done",
                                     !.deleted = DataFiles(World) \ DataFiles(w)]
    /\ UNCHANGED <<policyReg, cspReg, setup>> /\ ScriptFrame

-----------------------------------------------------------------------------
\* cmd/statusservice: the Windows service handler.

MaxRequests == 4

ServiceIdle ==
    [pc |-> "off", status |-> <<>>, updates |-> 0, updateErr |-> FALSE, handled |-> <<>>,
     logged |-> 0]

ServiceFrame == UNCHANGED <<serviceVars, fontVars, renderCall, dl, scaleCall, brightCall,
                            panelCall, setup, pw, script>>

\* changes <- svc.Status{State: svc.StartPending}
ExecuteStartPending ==
    /\ svc.pc = "off"
    /\ svc' = [svc EXCEPT !.pc = "update", !.status = Append(@, "StartPending")]
    /\ ServiceFrame

\* err := runStatusUpdate(s.elog); the error is logged.
ExecuteUpdate ==
    /\ svc.pc = "update"
    /\ \E failed \in BOOLEAN :
         svc' = [svc EXCEPT !.pc = "report", !.updates = @ + 1, !.updateErr = failed,
                            !.logged = IF failed THEN @ + 1 ELSE @]
    /\ ServiceFrame

\* Variant: a failed update is reported as a stopped service.
StatusAfterFailedUpdate(failed) == IF failed THEN "Stopped" ELSE "Running"

\* changes <- svc.Status{State: svc.Running, Accepts: cmdsAccepted}, after
\* either branch of the error check.
StatusAfterUpdate(failed) == "Running"

ExecuteRunning ==
    /\ svc.pc = "report"
    /\ svc' = [svc EXCEPT !.pc = "loop", !.status = Append(@, StatusAfterUpdate(svc.updateErr))]
    /\ ServiceFrame

ServiceCommands == {"Interrogate", "Stop", "Shutdown", "Pause"}

\* c.CurrentStatus: the status the service manager's handler holds, the last
\* one the service sent.
CurrentStatus(s) == s.status[Len(s.status)]

\* for { select { case c := <-r: ... } }: Interrogate is answered with
\* c.CurrentStatus, Stop and Shutdown leave the loop, anything else is logged.
ExecuteRequest ==
    /\ svc.pc = "loop" /\ Len(svc.handled) < MaxRequests
    /\ \E cmd \in ServiceCommands :
         svc' = [svc EXCEPT !.handled = Append(@, cmd),
                            !.status = IF cmd = "Interrogate" THEN Append(@, CurrentStatus(svc)) ELSE @,
                            !.logged = IF cmd = "Pause" THEN @ + 1 ELSE @,
                            !.pc = IF cmd \in {"Stop", "Shutdown"} THEN "stopping" ELSE @]
    /\ ServiceFrame

\* changes <- svc.Status{State: svc.StopPending}; return
ExecuteStopPending ==
    /\ svc.pc = "stopping"
    /\ svc' = [svc EXCEPT !.pc = "returned", !.status = Append(@, "StopPending")]
    /\ ServiceFrame

MoreIdle ==
    /\ panelCall = PanelIdle
    /\ setup = SetupIdle(Machine(FALSE, FALSE))
    /\ pw = NoWindow
    /\ svc = ServiceIdle
    /\ script = ScriptIdle

-----------------------------------------------------------------------------
\* Specifications.

InitCommon ==
    /\ pc = "idle"
    /\ bgpc = "idle"
    /\ run = RunInit
    /\ apply = NoApply
    /\ runs = 0
    /\ ext = 0
    /\ quiet = TRUE
    /\ bgSet = FALSE

\* The parts of the model a specification leaves alone.
FontIdle ==
    /\ fontOnce = OnceInit
    /\ fontCache = FontCacheInit
    /\ gor = [g \in Goroutines |-> GorIdle]

DlNoCall == dl = DlIdle([p \in DiskPaths |-> Absent], 0)

SideIdle ==
    /\ FontIdle
    /\ renderCall = RenderIdle
    /\ DlNoCall
    /\ scaleCall = ScaleIdle
    /\ brightCall = BrightIdle
    /\ MoreIdle

ServiceOff ==
    /\ InitCommon
    /\ files = [p \in FilePaths |-> NoFile]
    /\ policyReg = RegNoKey
    /\ cspReg = RegNoKey
    /\ spotlight = SpotNoEnv

\* A machine on which the service has not run yet.
Init ==
    /\ InitCommon
    /\ \E oobe \in {NoFile, OobePicture} :
         files = [p \in FilePaths |->
                    IF p = UserImage THEN UserPicture ELSE IF p = OobeDefault THEN oobe ELSE NoFile]
    /\ policyReg \in RegStatesNarrow
    /\ cspReg = RegNoKey
    /\ spotlight = SpotDir("absent", <<>>)
    /\ SideIdle

Next ==
    \/ ResolveSource
    \/ LoadSource
    \/ GatherInfo
    \/ RenderStage
    \/ SaveOutput
    \/ ApplyStage
    \/ Exit
    \/ InvalidateBackup
    \/ BgLockScreen
    \/ BgLoginScreen
    \/ BgExit

Spec == Init /\ [][Next]_vars

\* Source resolution alone, from every environment.
InitResolve ==
    /\ InitCommon
    /\ \E oobe \in {NoFile, OobePicture, Corrupt} :
         files = [p \in FilePaths |->
                    IF p = UserImage THEN UserPicture ELSE IF p = OobeDefault THEN oobe ELSE NoFile]
    /\ policyReg \in RegStatesWide
    /\ cspReg \in RegStatesWide
    /\ spotlight \in SpotStatesWide
    /\ SideIdle

NextResolve ==
    \/ ResolveSource
    \/ LoadSource
    \/ Exit

SpecResolve == InitResolve /\ [][NextResolve]_vars

\* The service's pipeline together with clients of the render functions.
InitRender ==
    /\ InitCommon
    /\ files = [p \in FilePaths |->
                  IF p = UserImage THEN UserPicture ELSE IF p = OobeDefault THEN OobePicture ELSE NoFile]
    /\ policyReg = RegNoValue
    /\ cspReg = RegNoKey
    /\ spotlight = SpotDir("absent", <<>>)
    /\ SideIdle

NextRender ==
    \/ ResolveSource
    \/ LoadSource
    \/ GatherInfo
    \/ RenderStage
    \/ SaveOutput
    \/ ApplyStage
    \/ Exit
    \/ CallRender

SpecRender == InitRender /\ [][NextRender]_vars

\* Goroutines of one process rendering concurrently.
InitFont ==
    /\ ServiceOff
    /\ SideIdle

NextFont ==
    \E g \in Goroutines :
        \/ GoRender(g)
        \/ OnceDo(g)
        \/ OnceLock(g)
        \/ ExtractRead(g)
        \/ ExtractMkdir(g)
        \/ ExtractWrite(g)
        \/ OnceUnlock(g)
        \/ GetFontPathReturn(g)
        \/ RenderFinish(g)
        \/ GoAgain(g)

SpecFont == InitFont /\ [][NextFont]_vars

\* Calls of DownloadFile, one after the other.
InitDownload ==
    /\ ServiceOff
    /\ FontIdle
    /\ renderCall = RenderIdle
    /\ scaleCall = ScaleIdle
    /\ brightCall = BrightIdle
    /\ MoreIdle
    /\ \E d \in {Absent, Previous} :
         dl = DlIdle([p \in DiskPaths |-> IF p = DestPath THEN d ELSE Absent], 0)

NextDownload ==
    \/ DownloadFile
    \/ DlMkdirAll
    \/ DlCreateTemp
    \/ DlNewRequest
    \/ DlClientDo
    \/ DlCopy
    \/ DlClose
    \/ DlRename
    \/ DlDeferred
    \/ DlReturned

SpecDownload == InitDownload /\ [][NextDownload]_vars

\* Calls of the layout calculator.
InitScale ==
    /\ ServiceOff
    /\ SideIdle

NextScale ==
    \/ CalculateScaledDimensions
    \/ ScaledDimensionsUsed

SpecScale == InitScale /\ [][NextScale]_vars

\* Calls of the brightness analyzer.
InitBright ==
    /\ ServiceOff
    /\ SideIdle

NextBright ==
    \/ AnalyzeRegion
    \/ BrightnessUsed

SpecBright == InitBright /\ [][NextBright]_vars

\* Calls of the render functions on pictures.
InitPanel ==
    /\ ServiceOff
    /\ SideIdle

NextPanel ==
    \/ CallRenderOverlay
    \/ CallRenderDualPanelOverlay
    \/ PanelsUsed

SpecPanel == InitPanel /\ [][NextPanel]_vars

\* The installer, the uninstaller and uninstall.ps1 on a machine the service
\* has not run on, or on one where it has run once.
InitSetup ==
    /\ InitCommon
    /\ FontIdle
    /\ renderCall = RenderIdle
    /\ DlNoCall
    /\ scaleCall = ScaleIdle
    /\ brightCall = BrightIdle
    /\ panelCall = PanelIdle
    /\ svc = ServiceIdle
    /\ script = ScriptIdle
    /\ pw = NoWindow
    /\ cspReg = RegNoKey
    /\ spotlight = SpotDir("absent", <<>>)
    /\ \/ /\ files = FreshFiles
          /\ policyReg = RegNoValue
          /\ setup = SetupIdle(Machine(FALSE, FALSE))
       \/ /\ files = RanFiles
          /\ policyReg = RegVal(OutputPath)
          /\ \E service \in BOOLEAN : setup = SetupIdle(Machine(service, ~service))

WorkerNext ==
    \/ WorkerStart
    \/ UninstallStep
    \/ InstallCheckService
    \/ InstallRemoveService
    \/ InstallCheckTask
    \/ InstallDeleteTasks
    \/ InstallExtract
    \/ InstallTasks
    \/ InstallRunExecutable
    \/ InstallApplyLockScreen
    \/ WorkerSetComplete
    \/ WorkerRecover

NextSetup ==
    \/ ChooseInstall
    \/ ChooseUninstall
    \/ ChooseCancel
    \/ CheckServiceExists
    \/ CheckScheduledTaskExists
    \/ CheckSend
    \/ SelectCheckDone
    \/ SelectTimeout
    \/ DecideUninstall
    \/ WorkerNext
    \/ WorkerPanic
    \/ DispatchMessage
    \/ LoopExit
    \/ UserMessage
    \/ ScriptStart
    \/ ScriptRemoveService
    \/ ScriptRestore
    \/ ScriptCleanup
    \/ ScriptRemoveData

SpecSetup == InitSetup /\ [][NextSetup]_vars

\* The goroutines are scheduled and the calls they make return; the window's
\* thread keeps taking messages.
SpecSetupFair == SpecSetup /\ WF_vars(WorkerNext) /\ WF_vars(DispatchMessage)

InitService == ServiceOff /\ SideIdle

NextService ==
    \/ ExecuteStartPending
    \/ ExecuteUpdate
    \/ ExecuteRunning
    \/ ExecuteRequest
    \/ ExecuteStopPending

SpecService == InitService /\ [][NextService]_vars

-----------------------------------------------------------------------------
\* Properties.

\* The environment, stated without the code's probes.
NamesExistingPath(reg) == reg.key /\ reg.set /\ reg.value # EmptyPath /\ Stat(reg.value)
ListedFiles ==
    IF spotlight.env /\ spotlight.dir = "dir"
    THEN {i \in 1..Len(spotlight.entries) :
            ~spotlight.entries[i].isDir /\ ~spotlight.entries[i].vanished}
    ELSE {}
Wallpapers == {i \in ListedFiles : spotlight.entries[i].size > 100000}
NoImageAnywhere ==
    /\ ~NamesExistingPath(policyReg)
    /\ ~Stat(OobeDefault)
    /\ ~NamesExistingPath(cspReg)
    /\ Wallpapers = {}
SyntheticCanvas == Image("synthetic", 1920, 1080, 0, "rgba")
InRun == pc \notin {"idle"}
Loaded == pc \in {"gather", "render", "save", "apply"}

\* C1: in a run that directly follows another run (nothing else acted in
\* between), the source image carries no overlay of an earlier run.
C1_SecondRunSourceIsPristine ==
    (runs >= 2 /\ run.quietStart /\ run.sourceImage # NoImage) => run.sourceImage.layers = 0

\* C2: SetLoginScreenImage on an existing image file returns nil exactly when
\* at least one of its mechanisms returned nil.
C2_NilIffSomeMechanismSucceeded ==
    (apply.fn = "SetLoginScreenImage" /\ apply.resolved /\ Stat(apply.path))
        => (apply.ret = NilRet <=> \E i \in 1..Len(apply.errs) : apply.errs[i] = Nil)

C2_Witness ==
    /\ apply.fn = "SetLoginScreenImage" /\ Len(apply.errs) = 3
    /\ apply.errs[1] # Nil /\ apply.errs[2] = Nil /\ apply.errs[3] # Nil
    /\ apply.ret = NilRet

\* C3: every applier invokes each of its mechanisms exactly once, in the
\* listed order, whatever the earlier mechanisms returned.
C3_AllMechanismsInOrder ==
    /\ (apply.fn = "SetLoginScreenImage" /\ apply.resolved /\ Stat(apply.path))
          => apply.calls = <<"WinRT", "GroupPolicy", "OOBE">>
    /\ (apply.fn = "setLockScreenWallpaper" /\ apply.resolved)
          => apply.calls = <<"Registry (HKCU)", "Assets folder", "System Data folder", "Registry (HKLM)">>
    /\ (apply.fn = "setLoginScreenBackground" /\ apply.resolved)
          => apply.calls = <<"WinRT", "GroupPolicy">>
    /\ Len(apply.errs) = Len(apply.calls)

C3_Witness ==
    /\ apply.fn = "SetLoginScreenImage" /\ Len(apply.calls) = 3
    /\ apply.errs[1] = Nil /\ apply.errs[2] # Nil /\ apply.errs[3] = Nil

\* C4: when every mechanism failed, the applier's error carries the failure
\* of the last mechanism attempted.
C4_AllFailedCarriesLastFailure ==
    (Len(apply.errs) > 0 /\ \A i \in 1..Len(apply.errs) : apply.errs[i] # Nil)
        => apply.ret.cause = apply.errs[Len(apply.errs)]

\* C5: an existing backup file changes in no step of a run; the only step
\* that changes it is InvalidateBackup removing it.
C5_BackupNeverOverwritten ==
    [][(files[GetBackupPath] # NoFile /\ files'[GetBackupPath] # files[GetBackupPath])
         => (/\ pc = "idle" /\ pc' = "idle" /\ bgpc = "idle" /\ bgpc' = "idle"
             /\ ext' = ext + 1
             /\ files'[GetBackupPath] = NoFile)]_vars

C5_Witness ==
    /\ runs >= 2 /\ pc = "returned" /\ run.hadBackup /\ run.err = Nil
    /\ policyReg = RegVal(OutputPath)
    /\ files[GetBackupPath] # files[OutputPath]

\* C6: a run that finds neither a backup nor a login-screen image uses the
\* synthetic 1920x1080 canvas and creates no backup; BackupOriginalImage only
\* ever gets the path GetCurrentLoginScreenImage returned.
C6_SyntheticIsNotBackedUp ==
    /\ (pc = "load" /\ ~run.hadBackup /\ NoImageAnywhere)
          => (run.sourceImage = SyntheticCanvas /\ run.backupArgs = <<>>)
    /\ (InRun /\ run.sourceImage = SyntheticCanvas) => files[GetBackupPath] = NoFile
    /\ \A i \in 1..Len(run.backupArgs) :
          run.found # EmptyPath /\ run.backupArgs[i] = run.found

C6_Witness ==
    /\ pc = "returned" /\ run.err = Nil /\ run.sourceImage = SyntheticCanvas
    /\ files[OutputPath] # NoFile /\ files[GetBackupPath] = NoFile

\* C7: a run that starts with the backup file present loads the backup, runs
\* no probe and writes no backup, whatever the probes would find.
C7_BackupIsTheSource ==
    /\ (InRun /\ run.hadBackup)
          => (/\ run.sourceImagePath = GetBackupPath
              /\ run.probes = <<>>
              /\ run.backupArgs = <<>>)
    /\ (Loaded /\ run.hadBackup) => run.sourceImage = files[GetBackupPath]

C7_Witness ==
    /\ pc = "gather" /\ run.hadBackup
    /\ policyReg = RegVal(OutputPath) /\ Stat(OutputPath) /\ Stat(OobeDefault)

\* C8: GetCurrentLoginScreenImage returns the candidate of the first probe
\* that hits, in the order policy, OOBE, CSP, Spotlight; the Spotlight
\* candidate is a largest regular file and is returned only above 100000 bytes.
C8_FirstHitWins ==
    (pc = "load" /\ ~run.hadBackup) =>
        /\ NamesExistingPath(policyReg) => run.found = policyReg.value
        /\ (~NamesExistingPath(policyReg) /\ Stat(OobeDefault)) => run.found = OobeDefault
        /\ (~NamesExistingPath(policyReg) /\ ~Stat(OobeDefault) /\ NamesExistingPath(cspReg))
              => run.found = cspReg.value
        /\ (~NamesExistingPath(policyReg) /\ ~Stat(OobeDefault) /\ ~NamesExistingPath(cspReg))
              => /\ (Wallpapers = {}) <=> (run.found = EmptyPath)
                 /\ run.found # EmptyPath =>
                      /\ run.found.dir = SpotlightDir
                      /\ run.found.idx \in Wallpapers
                      /\ \A j \in ListedFiles :
                            spotlight.entries[j].size <= spotlight.entries[run.found.idx].size

C8_Witness ==
    /\ pc = "load" /\ run.found.dir = SpotlightDir /\ run.found.idx = 2
    /\ Len(spotlight.entries) = 2
    /\ spotlight.entries[1].size = 100000 /\ ~spotlight.entries[1].isDir
    /\ policyReg = RegVal(MissingPath)

\* C9: a probe miss never ends the run: resolution goes on to the next probe,
\* and the synthetic canvas is the source exactly when all four probes missed.
C9_MissesAdvance ==
    /\ (run.stages = <<"resolve">> /\ ~run.hadBackup) => (pc = "load" /\ ~run.returned)
    /\ (pc = "load" /\ ~run.hadBackup)
          => /\ NoImageAnywhere <=> (run.sourceImage = SyntheticCanvas)
             /\ NoImageAnywhere => run.probes = <<"policy", "oobe", "csp", "spotlight">>
             /\ ~NoImageAnywhere => (run.sourceImage = NoImage /\ run.sourceImagePath = run.found)

C9_Witness ==
    /\ pc = "load" /\ run.sourceImage = SyntheticCanvas
    /\ policyReg = RegVal(MissingPath) /\ cspReg = RegVal(EmptyPath)
    /\ spotlight.dir = "unreadable"

\* C10: after a run that returned success the data directory holds exactly
\* one file named loginscreen_*.jpg.
C10_ExactlyOneTimestampedOutput ==
    (pc = "returned" /\ run.err = Nil)
        => Cardinality({p \in FilePaths :
              p.dir = BackupDir /\ Stat(p) /\ IsLoginScreenName(Chars(p.name))}) = 1

\* The stages of a run, and the stage each error message of runStatusUpdate
\* belongs to.
Stages == <<"resolve", "load", "gather", "render", "save", "apply">>
FailedAt(msg) ==
    CASE msg = "failed to load source image" -> 2
      [] msg = "failed to gather system info" -> 3
      [] msg = "failed to render overlay" -> 4
      [] msg = "failed to save modified image" -> 5
      [] msg = "failed to set login screen" -> 6
      [] OTHER -> 1

\* C11: the stages of a run execute in order; a stage that returns an error
\* is the last stage of its run and the run returns that error; the apply
\* stage only runs on an output file saved by the same run.
C11_FailureAbortsRun ==
    /\ run.stages = SubSeq(Stages, 1, Len(run.stages))
    /\ run.returned <=> pc = "returned"
    /\ run.err # Nil => (run.returned /\ Len(run.stages) = FailedAt(run.err))
    /\ (pc = "apply" \/ (Len(run.stages) = 6 /\ InRun))
          => (/\ IsImage(run.resultImage)
              /\ files[OutputPath] = [run.resultImage EXCEPT !.format = "jpeg"])

C11_Witness ==
    /\ pc = "returned" /\ run.err = "failed to save modified image"
    /\ files[OutputPath] = Corrupt /\ apply = NoApply

\* C12: a failed apply stage leaves the saved output file and the backup file
\* as they were, and the run returns an error.
C12_NoRollbackOnApplyFailure ==
    [][(pc = "apply" /\ apply'.ret # NilRet)
         => (/\ files'[OutputPath] = files[OutputPath]
             /\ files'[GetBackupPath] = files[GetBackupPath]
             /\ run'.returned /\ run'.err = "failed to set login screen")]_vars

C12_Witness ==
    /\ pc = "returned" /\ run.err = "failed to set login screen"
    /\ Len(apply.calls) = 3 /\ apply.errs[3] = "failed to open LogonUI Background key"
    /\ IsImage(files[OutputPath]) /\ files[OutputPath].layers = 1
    /\ IsImage(files[GetBackupPath])

\* Positions inside the function passed to Once.Do, and after Once.Do.
ExtractionBody == {"readfont", "mkdir", "write", "unlock"}
PastOnce == {"return", "face", "done"}

\* C13: the extraction body runs at most once, by one goroutine at a time,
\* and whoever is past getFontPath's Once finds the extraction finished.
C13_FontExtractedOnce ==
    /\ fontOnce.runs <= 1
    /\ Cardinality({g \in Goroutines : gor[g].pc \in ExtractionBody}) <= 1
    /\ \A g \in Goroutines :
          gor[g].pc \in PastOnce
             => (/\ fontOnce.done /\ fontOnce.runs = 1
                 /\ \A h \in Goroutines : gor[h].pc \notin ExtractionBody)

C13_Witness ==
    /\ gor[1].pc = "lock" /\ gor[2].pc = "write" /\ fontOnce.m = 2

\* C14: when the font path or the font face cannot be had, a render function
\* returns a nil image and an error, and the run that called it stops at the
\* render stage: nothing is saved and nothing applied.
C14_FontFailureIsFatal ==
    /\ (renderCall.called /\ renderCall.font # "ok")
          => (renderCall.img = NoImage /\ renderCall.err # Nil)
    /\ run.font \in {"path", "face"}
          => (/\ run.resultImage = NoImage
              /\ run.err = "failed to render overlay" /\ pc = "returned"
              /\ run.stages = <<"resolve", "load", "gather", "render">>
              /\ apply = NoApply)

C14_Witness ==
    /\ renderCall.fn = "RenderDualPanelOverlay" /\ renderCall.font = "path"
    /\ run.font = "face" /\ pc = "returned"

C16_NoPartialOutput == files[OutputPath].kind # "corrupt"

\* C17: a run that follows bgchanger setting a new login-screen image uses that
\* image as its source, also when a backup exists.
C17_NewImageIsTheSource ==
    (Loaded /\ run.afterBgchanger /\ policyReg = RegVal(UserImage) /\ Stat(UserImage))
        => run.sourceImage.origin = "user"

\* C18: the scale factor lies within [0.6, 1.0] and the font size is at least
\* 12, for every width and height.
C18_ScaleWithinBounds ==
    scaleCall.called
        => (/\ 10 * scaleCall.dims.ScaleFactor >= 6 * Unit
            /\ scaleCall.dims.ScaleFactor <= Unit
            /\ scaleCall.dims.FontSize >= 12 * Unit)

C18_Witness ==
    /\ scaleCall.called /\ scaleCall.width = 0 /\ scaleCall.height = -1080
    /\ 10 * scaleCall.dims.ScaleFactor = 6 * Unit

\* C19: the scale factor is min(width/1920, height/1080) clamped to
\* [0.6, 1.0], every metric but the font size is its base value times the
\* scale factor, and the font size is max(18 x scale factor, 12).
C19_ScaledMetrics ==
    scaleCall.called =>
        LET d == scaleCall.dims
            s == d.ScaleFactor
            rx == scaleCall.width * 1080
            ry == scaleCall.height * 1920
        IN /\ \E m \in {rx, ry} :
                /\ m <= rx /\ m <= ry
                /\ (10 * m <= 6 * Unit) => (10 * s = 6 * Unit)
                /\ (m >= Unit) => (s = Unit)
                /\ (10 * m >= 6 * Unit /\ m <= Unit) => (s = m)
           /\ d.Padding = 20 * s /\ d.LineSpacing = 6 * s /\ d.CornerRadius = 10 * s
           /\ d.MarginRight = 40 * s /\ d.MarginLeft = 40 * s /\ d.MarginTop = 80 * s
           /\ d.FontSize >= 18 * s /\ d.FontSize >= 12 * Unit
           /\ d.FontSize \in {18 * s, 12 * Unit}
           /\ (scaleCall.width = 1024 /\ scaleCall.height = 768)
                 => (10 * s = 6 * Unit /\ d.FontSize = 12 * Unit)

C19_Witness ==
    /\ scaleCall.called /\ scaleCall.width = 1024 /\ scaleCall.height = 768

\* C20: the result is TRUE exactly when the mean luminance of the pixels
\* sampled with stride 4 from the region clamped to the picture is above 128,
\* and FALSE when that region has no pixel.
C20_LightIffMeanAbove128 ==
    brightCall.called =>
        LET img == brightCall.img
            left == IF brightCall.x > img.minX THEN brightCall.x ELSE img.minX
            top == IF brightCall.y > img.minY THEN brightCall.y ELSE img.minY
            right == IF brightCall.x + brightCall.width < img.maxX
                     THEN brightCall.x + brightCall.width ELSE img.maxX
            bottom == IF brightCall.y + brightCall.height < img.maxY
                      THEN brightCall.y + brightCall.height ELSE img.maxY
            cells == {c \in (left..(right - 1)) \X (top..(bottom - 1)) :
                        (c[1] - left) % 4 = 0 /\ (c[2] - top) % 4 = 0}
        IN IF cells = {} THEN ~brightCall.light
           ELSE brightCall.light
                   <=> (TotalLuminance(img, cells).milli > 128000 * Cardinality(cells))

\* The panels of the last call of a render function, and the rectangle a
\* panel's box occupies, in whole pixels.
PanelNames == {"left", "right"}
UsedPanels == {p \in PanelNames : panelCall.panels[p].used}
BoxRect(b) == Rect(Trunc(b.x), Trunc(b.y), Trunc(b.w), Trunc(b.h))
BoxIsLight(img, b) == AnalyzeRegionBrightness(img, Trunc(b.x), Trunc(b.y), Trunc(b.w), Trunc(b.h))
DisplayOfCall == GetDisplayResolution(panelCall.controllers)

\* C21: a panel's scheme is DarkOnLight exactly when the brightness analyzer
\* classifies as light the rectangle of the box that is drawn for this panel
\* (same origin, width and height), and LightOnDark otherwise, in RenderOverlay
\* and for each panel of RenderDualPanelOverlay.
C21_SchemeFollowsOwnBox ==
    panelCall.called =>
        \A p \in UsedPanels :
            LET q == panelCall.panels[p] IN
            /\ q.region = BoxRect(q.box)
            /\ q.colors = (IF BoxIsLight(panelCall.img, q.box) THEN "DarkOnLight" ELSE "LightOnDark")

\* C22: a panel without lines is not painted; when every panel of the call is
\* without lines nothing is painted and the picture comes out as it went in.
C22_EmptyPanelDrawsNothing ==
    panelCall.called =>
        \A p \in UsedPanels :
            LET q == panelCall.panels[p] IN
            Len(q.lines) = 0 => ~(q.drawn /\ OnCanvas(panelCall.img, q.box))

\* C23: in RenderDualPanelOverlay the left box starts at (marginLeft, marginTop)
\* and the right box at (imageWidth - rightBoxWidth - marginRight, marginTop),
\* each margin being base x scale(display) x image size / display size of its
\* axis; a 1920x1080 picture on a 1920x1080 display has its left box at (40, 80)
\* and its right box at (1920 - rightBoxWidth - 40, 80).
C23_BoxOrigins ==
    (panelCall.called /\ panelCall.fn = "RenderDualPanelOverlay") =>
        LET img == panelCall.img
            display == DisplayOfCall
            scale == Frac(calculateScaledDimensionsForResolution(display[1], display[2]).ScaleFactor, Unit)
            ratioX == Frac(Width(img), display[1])
            ratioY == Frac(Height(img), display[2])
            marginLeft == Times(Times(Whole(BaseMarginLeft), scale), ratioX)
            marginRight == Times(Times(Whole(BaseMarginRight), scale), ratioX)
            marginTop == Times(Times(Whole(BaseMarginTop), scale), ratioY)
            left == panelCall.panels["left"].box
            right == panelCall.panels["right"].box
        IN /\ left.x = marginLeft /\ left.y = marginTop
           /\ right.x = Minus(Minus(Whole(Width(img)), right.w), marginRight)
           /\ right.y = marginTop
           /\ (Width(img) = 1920 /\ Height(img) = 1080 /\ display = <<1920, 1080>>) =>
                /\ left.x = Whole(40) /\ left.y = Whole(80)
                /\ Plus(right.x, right.w) = Whole(1920 - 40) /\ right.y = Whole(80)

\* A 400x300 picture on a 1024x768 display, both panels with text.
C23_Witness ==
    /\ panelCall.called /\ panelCall.fn = "RenderDualPanelOverlay"
    /\ Width(panelCall.img) = 400 /\ DisplayOfCall = <<1024, 768>>
    /\ panelCall.panels["left"].drawn /\ panelCall.panels["right"].drawn
    /\ panelCall.panels["left"].box.x = Frac(75, 8)
    /\ panelCall.panels["left"].box.y = Frac(75, 4)

\* C24: when runUninstall's wait for the installed-check ends by the 15-second
\* timeout, the uninstall goes on: the progress window is created and no
\* "Not Installed" message ends the run.
C24_TimeoutStillUninstalls ==
    (setup.fn = "runUninstall" /\ setup.timedOut /\ setup.main \in {"loop", "returned"})
        => (pw.created /\ setup.shown = "")

\* C25: the window starts with canClose false, canClose becomes true only by
\* the window procedure handling WM_SET_COMPLETE or WM_ENABLE_CLOSE, and the
\* window is never destroyed while canClose is false.
C25_NoCloseBeforeCompletion ==
    [][/\ (~pw.created /\ pw'.created) => ~pw'.canClose
       /\ (~pw.canClose /\ pw'.canClose) =>
             \E i \in 1..Len(pw.queue) : pw.queue[i] \in {"WM_SET_COMPLETE", "WM_ENABLE_CLOSE"}
       /\ pw'.destroyed => pw'.canClose]_vars

\* A close request of the user was handled before completion and the window is still there.
C25_Witness ==
    /\ pw.created /\ ~pw.canClose /\ ~pw.destroyed
    /\ pw.userMessages >= 1 /\ pw.queue = <<>>
    /\ setup.worker \notin {"off", "done"}

Interrogated == Cardinality({i \in 1..Len(svc.handled) : svc.handled[i] = "Interrogate"})

\* C27: Execute reports StartPending first, runs the update exactly once,
\* reports Running after it whether it failed or not, runs no update while
\* handling requests, answers each Interrogate with the current status, and
\* on Stop or Shutdown reports StopPending and returns.
C27_ExecuteLifecycle ==
    /\ svc.pc # "off" => svc.status[1] = "StartPending"
    /\ svc.updates = (IF svc.pc \in {"off", "update"} THEN 0 ELSE 1)
    /\ svc.pc \in {"loop", "stopping", "returned"} =>
          /\ svc.status[2] = "Running"
          /\ Len(svc.status) = 2 + Interrogated + (IF svc.pc = "returned" THEN 1 ELSE 0)
          /\ \A i \in 3..(2 + Interrogated) : svc.status[i] = "Running"
    /\ svc.pc = "loop" => \A i \in 1..Len(svc.handled) : svc.handled[i] \notin {"Stop", "Shutdown"}
    /\ svc.pc \in {"stopping", "returned"} => svc.handled[Len(svc.handled)] \in {"Stop", "Shutdown"}
    /\ svc.pc = "returned" => svc.status[Len(svc.status)] = "StopPending"

\* The update failed, an Interrogate was answered and a Stop ended the service.
C27_Witness ==
    /\ svc.pc = "returned" /\ svc.updateErr
    /\ Interrogated >= 1
    /\ svc.handled[Len(svc.handled)] = "Stop"

\* The first extraction has been made and has ended.
FirstExtractionOver == fontOnce.runs >= 1 /\ fontOnce.m = 0

\* C28: once the first extraction has ended, its outcome stays: no step starts
\* another extraction or writes the font file, the cached path and error do not
\* change, and every getFontPath call that returns gives that error, or that
\* path when there is no error.
C28_FirstOutcomeIsPermanent ==
    [][FirstExtractionOver =>
         /\ fontCache' = fontCache
         /\ fontOnce'.runs = fontOnce.runs
         /\ \A g \in Goroutines :
               (gor[g].pc = "return" /\ gor'[g].pc = "face") =>
                  /\ gor'[g].err = fontCache.fontPathErr
                  /\ gor'[g].fontFile = (IF fontCache.fontPathErr # Nil THEN ""
                                         ELSE fontCache.cachedFontPath)]_vars

\* The first call has failed to write the file and is over; a later call has
\* returned the same error.
C28_Witness ==
    /\ fontOnce.done /\ fontOnce.runs = 1
    /\ fontCache.fontPathErr = "failed to write font file"
    /\ gor[1].pc = "done" /\ gor[2].pc = "face"
    /\ gor[2].err = "failed to write font file" /\ gor[2].fontFile = ""

\* An uninstall that ran to its end: the GUI uninstaller's worker, or
\* uninstall.ps1 with the restore accepted and without -KeepBackup.
UninstallCompleted ==
    \/ setup.fn = "runUninstall" /\ setup.worker = "done" /\ ~setup.panicked
    \/ script.pc = "done" /\ script.restore = "y" /\ ~script.keepBackup

\* C29: after a completed uninstall the policy value LockScreenImage does not
\* name a file the uninstaller deleted.
C29_PolicyNamesNoDeletedFile ==
    UninstallCompleted => ~(policyReg.set /\ policyReg.value \in (setup.deleted \cup script.deleted))

\* C30: every pixel AnalyzeRegionBrightness samples lies inside the bounds of
\* the image and inside the rectangle (x, y, width, height) that was requested.
C30_SamplesInsideImageAndRegion ==
    brightCall.called =>
        \A c \in SampledPixels(brightCall.img, brightCall.x, brightCall.y,
                               brightCall.width, brightCall.height) :
            /\ brightCall.img.minX <= c[1] /\ c[1] < brightCall.img.maxX
            /\ brightCall.img.minY <= c[2] /\ c[2] < brightCall.img.maxY
            /\ brightCall.x <= c[1] /\ c[1] < brightCall.x + brightCall.width
            /\ brightCall.y <= c[2] /\ c[2] < brightCall.y + brightCall.height
====
